---- MODULE Spec2Model ----
(***************************************************************************)
(* State-machine model of restbase-mod-table-sqlite: the client wrapper    *)
(* (writer pool of one connection, transactional run(), busy retry), the   *)
(* put pipeline with revision retention, and the table lifecycle with the  *)
(* schema migrator.                                                        *)
(***************************************************************************)
EXTENDS Integers, Sequences, FiniteSets, TLC

VARIABLES
    conf,        \* options.conf: [retry_limit], 0 = not configured
    wrapperRev,  \* which revision of Wrapper.run settles a failed statement
    pool,        \* writer pool: [holder, queue]; holder 0 = connection idle
    conn,        \* writer connection: [txnOpen, work] (work = uncommitted view)
    db,          \* committed database, what the reader connection sees
    runs,        \* the run() calls made so far, in call order
    reads,       \* the all() calls made so far, in call order
    faults,      \* engine failures still to be injected; < 0: any number
    now,         \* the wall clock, new Date().getTime(), in ms
    schemaCache, \* DB.schemaCache: table name -> schema-info, NoSchema when absent
    queryCache,  \* DB.queryCache: the keys that hold a prepared statement
    compiled,    \* for each cached key, the schema-info its statement was built from
    tasks        \* the requests made to the storage service so far, in call order

storeVars == <<now, schemaCache, queryCache, compiled, tasks>>
vars == <<conf, wrapperRev, pool, conn, db, runs, reads, faults,
          now, schemaCache, queryCache, compiled, tasks>>

(***************************************************************************)
(* Bounds of the model.                                                    *)
(***************************************************************************)
NCalls == 2          \* run() calls of the wrapper specification
NPuts == 2           \* put requests of the put specification
NCreates == 2        \* createTable requests of the table lifecycle specification
NDrops == 2          \* dropTable requests of the drop specification
NRequests == 2       \* requests of the read specification
NLifecycle == 3      \* requests of the lifecycle specification
NPutIfs == 2         \* put requests of the conditional put specification
MaxFaults == 1       \* engine failures injected in the put specification
MaxTicks == 1        \* clock ticks of the put specification
NRetryCalls == 1     \* run() calls of the retry specification
NReads == 1          \* all() calls of the retry specification
MaxQueries == 2      \* entries of a raw queries array

(***************************************************************************)
(* Program constants.                                                      *)
(***************************************************************************)
DefaultRetryLimit == 5
PoolMax == 1

ConfRetryLimits == {0, 1, 2}

\* the clock starts at StartTime and advances by TickMs
StartTime == 2000
TickMs == 1000

\* logical tables (domain_table) and the absent schema-info
TableNames == {"T"}
NoSchema == [version |-> 0]
WrapperRevs == {"finallyThrow", "thenThrow"}

\* the budget of injected engine failures (BUSY, I/O error, disk full)
FaultAllowed == faults # 0
SpendFault(code) ==
    IF code \in {"SQLITE_BUSY", "SQLITE_IOERR", "SQLITE_FULL"} /\ faults > 0
    THEN faults - 1 ELSE faults
Unbudgeted == 0 - 1

NoErr == [code |-> "none", at |-> "none"]
Err(code, at) == [code |-> code, at |-> at]

(***************************************************************************)
(* Wrapper.constructor: this.retryLimit = options.conf.retry_limit || 5.   *)
(***************************************************************************)
retryLimit == IF conf.retry_limit = 0 THEN DefaultRetryLimit ELSE conf.retry_limit

(***************************************************************************)
(* The retry test of beginTransaction and of all():                        *)
(*   err.cause.code === 'SQLITE_BUSY' && retryCount++ < this.retryLimit    *)
(***************************************************************************)
ShouldRetryUnbounded(code, retryCount) == code = "SQLITE_BUSY"
ShouldRetryAnyError(code, retryCount) == retryCount < retryLimit

ShouldRetry(code, retryCount) == code = "SQLITE_BUSY" /\ retryCount < retryLimit

(***************************************************************************)
(* queries.filter((query) => query && query.sql)                           *)
(***************************************************************************)
KeepQuery(q) == q.op # "null" /\ q.op # "nosql"

KeepEveryQuery(q) == TRUE

RECURSIVE FilterQueries(_)
FilterQueries(qs) ==
    IF qs = <<>> THEN <<>>
    ELSE IF KeepQuery(Head(qs)) THEN <<Head(qs)>> \o FilterQueries(Tail(qs))
         ELSE FilterQueries(Tail(qs))

(***************************************************************************)
(* Raw inputs of the wrapper specification: an array whose entries are a   *)
(* statement, null, or an object without sql; or a value that is no array. *)
(***************************************************************************)
NoArgs == [key |-> 0, tid |-> 0, val |-> 0, eu |-> 0, t |-> 0]
Mark == [op |-> "mark", a |-> NoArgs]
NullQ == [op |-> "null", a |-> NoArgs]
NoSqlQ == [op |-> "nosql", a |-> NoArgs]

RECURSIVE SeqsUpTo(_, _)
SeqsUpTo(S, n) ==
    IF n = 0 THEN {<<>>}
    ELSE LET shorter == SeqsUpTo(S, n - 1)
         IN shorter \cup {Append(s, x) : s \in {t \in shorter : Len(t) = n - 1}, x \in S}

RawQueryLists ==
    SeqsUpTo({Mark, NullQ}, MaxQueries) \cup {<<NoSqlQ>>, <<Mark, NoSqlQ>>, <<NoSqlQ, Mark>>}

(***************************************************************************)
(* The writer pool (generic-pool, max: 1): acquire dispenses the idle      *)
(* connection or queues the caller; release hands the connection to the    *)
(* longest waiting caller.                                                 *)
(***************************************************************************)
CanDispenseAlways(p) == TRUE

CanDispense(p) == p.holder = 0 /\ p.queue = <<>>

PoolAcquire(p, r) ==
    IF CanDispense(p) THEN [p EXCEPT !.holder = r]
    ELSE [p EXCEPT !.queue = Append(p.queue, r)]

PoolRelease(p) ==
    IF p.queue = <<>> THEN [p EXCEPT !.holder = 0]
    ELSE [holder |-> Head(p.queue), queue |-> Tail(p.queue)]

\* the waiter that receives the connection on release resumes at beginTransaction
WakeNext(rs, p) ==
    IF p.queue = <<>> THEN rs
    ELSE [rs EXCEPT ![Head(p.queue)].pc = "begin", ![Head(p.queue)].acquired = TRUE]

NewRun(owner, isArray, queries, dispensed) ==
    [owner |-> owner, isArray |-> isArray, queries |-> queries,
     pc |-> IF dispensed THEN "begin" ELSE "waiting",
     idx |-> 1, retryCount |-> 0, attempts |-> 0,
     lastErr |-> NoErr,     \* what the last 'begin immediate' was answered
     stmtErr |-> NoErr, rollbackIssued |-> FALSE, commitIssued |-> FALSE,
     acquired |-> dispensed, released |-> 0, commitSeq |-> 0,
     result |-> NoErr, settled |-> FALSE]

\* Wrapper.run up to connectionPool.acquire_p()
StartRun(owner, isArray, queries) ==
    LET r == Len(runs) + 1
    IN /\ runs' = Append(runs, NewRun(owner, isArray, queries, CanDispense(pool)))
       /\ pool' = PoolAcquire(pool, r)

(***************************************************************************)
(* Rows of [T_data]: primary key (key, tid), one value column and          *)
(* _exist_until (eu), where Null is SQL NULL.  The statements that the     *)
(* query builders emit carry their parameters; a time parameter is filled  *)
(* in when the statement is built, not when it runs.                       *)
(***************************************************************************)
Null == 0
Unset == 0 - 1     \* the attribute is not part of the statement
Row(key, tid, val, eu) == [key |-> key, tid |-> tid, val |-> val, eu |-> eu]

\* a condition without the _exist_until conjunct
GateOpen(row, includePreparedForDelete, t) == TRUE

\* buildCondition: the _exist_until conjunct
Gate(row, includePreparedForDelete, t) ==
    IF includePreparedForDelete THEN row.eu > t \/ row.eu = Null
    ELSE row.eu = Null

SamePk(row, a) == row.key = a.key /\ row.tid = a.tid

\* buildUpdateQuery: update ... set <non-key columns> where <pk> and <gate>
UpdateQ(key, tid, val, eu, t) ==
    [op |-> "update", a |-> [key |-> key, tid |-> tid, val |-> val, eu |-> eu, t |-> t]]
\* buildInsertQuery: insert or ignore
InsertQ(key, tid, val, eu) ==
    [op |-> "insert", a |-> [key |-> key, tid |-> tid, val |-> val, eu |-> eu, t |-> 0]]
\* buildDeleteOlderQuery: delete ... where <pk> and <gate>
DeleteOlderQ(key, tid, t) ==
    [op |-> "deleteOlder", a |-> [key |-> key, tid |-> tid, val |-> 0, eu |-> 0, t |-> t]]
\* buildDeleteExpiredQuery: delete ... where _exist_until < ?
DeleteExpiredQ(t) ==
    [op |-> "deleteExpired", a |-> [key |-> 0, tid |-> 0, val |-> 0, eu |-> 0, t |-> t]]

UpdateRows(rows, a) ==
    {IF SamePk(row, a) /\ Gate(row, TRUE, a.t)
     THEN [row EXCEPT !.val = a.val, !.eu = IF a.eu = Unset THEN @ ELSE a.eu]
     ELSE row : row \in rows}

InsertRows(rows, a) ==
    IF \E row \in rows : SamePk(row, a) THEN rows
    ELSE rows \cup {Row(a.key, a.tid, a.val, IF a.eu = Unset THEN Null ELSE a.eu)}

DeleteOlderRows(rows, a) ==
    {row \in rows : ~(SamePk(row, a) /\ Gate(row, TRUE, a.t))}

DeleteExpiredRows(rows, a) ==
    {row \in rows : ~(row.eu # Null /\ row.eu < a.t)}

\* buildUpdateQuery of a request with an `if` predicate on the value column:
\* update ... where <pk> and <val = ?> and <gate>
UpdateIfQ(key, tid, val, eu, t, ifVal) ==
    [op |-> "updateIf",
     a |-> [key |-> key, tid |-> tid, val |-> val, eu |-> eu, t |-> t, ifVal |-> ifVal]]
\* buildPutQuery: insert or replace into [T_static] (hash keys, static columns)
ReplaceStaticQ(key, extra) == [op |-> "replaceStatic", a |-> [key |-> key, extra |-> extra]]
\* buildSecondaryIndexUpdateQuery: insert or replace into [T_secondaryIndex]
ReplaceIndexQ(key, val) == [op |-> "replaceIndex", a |-> [key |-> key, val |-> val]]

UpdateIfRows(rows, a) ==
    {IF SamePk(row, a) /\ row.val = a.ifVal /\ Gate(row, TRUE, a.t)
     THEN [row EXCEPT !.val = a.val, !.eu = IF a.eu = Unset THEN @ ELSE a.eu]
     ELSE row : row \in rows}

\* insert or replace: the row with the same primary key (the hash key) goes
ReplaceRow(rows, a) == {row \in rows : row.key # a.key} \cup {a}

(***************************************************************************)
(* Data definition statements and the write of the meta row.               *)
(***************************************************************************)
\* create table if not exists [T_<table>] (cols)
CreateTableQ(table, cols) == [op |-> "createTable", a |-> [table |-> table, cols |-> cols]]
\* create index if not exists [T_index_<name>] on [T_secondaryIndex]
CreateIndexQ(name) == [op |-> "createIndex", a |-> [name |-> name]]
\* ALTER TABLE [T_<table>] ADD COLUMN col
AddColumnQ(table, col) == [op |-> "addColumn", a |-> [table |-> table, col |-> col]]
\* drop index if exists [T_index_<name>]
DropIndexQ(name) == [op |-> "dropIndex", a |-> [name |-> name]]
\* the put of {table, value} into global_schema: the tid is a fresh timeuuid,
\* so the update matches nothing and the insert adds the newest row
MetaPutQ(table, value) == [op |-> "metaPut", a |-> [table |-> table, value |-> value]]
\* what a builder returns when there is nothing to build: no sql
NoSql == [op |-> "nosql", a |-> NoArgs]

\* drop table [T_<table>]
DropTableQ(table) == [op |-> "dropTable", a |-> [table |-> table]]
\* drop index [T_index_<name>]
DropIndexStrictQ(name) == [op |-> "dropIndexStrict", a |-> [name |-> name]]
\* delete from [global_schema_data] where "table" = ?
MetaDeleteQ(table) == [op |-> "metaDelete", a |-> [table |-> table]]

DdlOps == {"createTable", "createIndex", "addColumn", "dropIndex", "metaPut",
           "dropTable", "dropIndexStrict", "metaDelete"}

DdlCode(stmt, d) ==
    CASE stmt.op = "createIndex" /\ d.tables.secondaryIndex = {} ->
            "SQLITE_ERROR: no such table"
      [] stmt.op = "addColumn" /\ d.tables[stmt.a.table] = {} ->
            "SQLITE_ERROR: no such table"
      [] stmt.op = "addColumn" /\ stmt.a.col \in d.tables[stmt.a.table] ->
            "SQLITE_ERROR: duplicate column name"
      [] stmt.op = "dropTable" /\ d.tables[stmt.a.table] = {} ->
            "SQLITE_ERROR: no such table"
      [] stmt.op = "dropIndexStrict" /\ stmt.a.name \notin d.tables.indexes ->
            "SQLITE_ERROR: no such index"
      [] OTHER -> "none"

DdlEffect(stmt, d) ==
    CASE stmt.op = "createTable" ->
            IF d.tables[stmt.a.table] = {}
            THEN [d EXCEPT !.tables[stmt.a.table] = stmt.a.cols] ELSE d
      [] stmt.op = "createIndex" -> [d EXCEPT !.tables.indexes = @ \cup {stmt.a.name}]
      [] stmt.op = "addColumn" -> [d EXCEPT !.tables[stmt.a.table] = @ \cup {stmt.a.col}]
      [] stmt.op \in {"dropIndex", "dropIndexStrict"} ->
            [d EXCEPT !.tables.indexes = @ \ {stmt.a.name}]
      [] stmt.op = "dropTable" ->
            [d EXCEPT !.tables[stmt.a.table] = {},
                      !.tables.indexes = IF stmt.a.table = "secondaryIndex" THEN {} ELSE @,
                      !.rows = IF stmt.a.table = "data" THEN {} ELSE @,
                      !.statics = IF stmt.a.table = "static" THEN {} ELSE @,
                      !.index = IF stmt.a.table = "secondaryIndex" THEN {} ELSE @]
      [] stmt.op = "metaDelete" ->
            [d EXCEPT !.meta = SelectSeq(@, LAMBDA m : m.table # stmt.a.table)]
      [] OTHER -> [d EXCEPT !.meta = <<[table |-> stmt.a.table, value |-> stmt.a.value]>> \o @]

(***************************************************************************)
(* The engine's effect of one statement on a database state.               *)
(***************************************************************************)
StmtResult(stmt, d, r, i) ==
    IF stmt.op \in DdlOps
    THEN LET code == DdlCode(stmt, d)
         IN [ok |-> code = "none", code |-> code,
             d |-> IF code = "none" THEN DdlEffect(stmt, d) ELSE d]
    ELSE
    [ok |-> TRUE, code |-> "none",
     d |-> CASE stmt.op = "update" -> [d EXCEPT !.rows = UpdateRows(@, stmt.a)]
             [] stmt.op = "insert" -> [d EXCEPT !.rows = InsertRows(@, stmt.a)]
             [] stmt.op = "deleteOlder" -> [d EXCEPT !.rows = DeleteOlderRows(@, stmt.a)]
             [] stmt.op = "deleteExpired" -> [d EXCEPT !.rows = DeleteExpiredRows(@, stmt.a)]
             [] stmt.op = "updateIf" -> [d EXCEPT !.rows = UpdateIfRows(@, stmt.a)]
             [] stmt.op = "replaceStatic" -> [d EXCEPT !.statics = ReplaceRow(@, stmt.a)]
             [] stmt.op = "replaceIndex" -> [d EXCEPT !.index = ReplaceRow(@, stmt.a)]
             [] OTHER -> [d EXCEPT !.marks = @ \cup {<<r, i>>}]]

(***************************************************************************)
(* Wrapper.run, one action per answer of the engine.                       *)
(***************************************************************************)
\* what the engine may answer to 'begin immediate'
BeginAnswers ==
    IF conn.txnOpen THEN {"SQLITE_ERROR"}   \* cannot start a transaction within a transaction
    ELSE {"ok"} \cup (IF FaultAllowed THEN {"SQLITE_BUSY", "SQLITE_IOERR"} ELSE {})

\* the .then((client) => { queries = queries.filter(...); P.each(...) }) handler
AfterBegin(run) ==
    IF ~run.isArray
    THEN \* queries.filter throws outside the .catch that rolls back and releases
         [run EXCEPT !.pc = "done", !.settled = TRUE,
                     !.result = Err("TypeError", "filter")]
    ELSE LET qs == FilterQueries(run.queries)
         IN [run EXCEPT !.queries = qs, !.idx = 1,
                        !.pc = IF qs = <<>> THEN "commit" ELSE "exec"]

\* beginTransaction's catch, when the error is not retried
BeginFailed(run, code) ==
    [run EXCEPT !.pc = "done", !.settled = TRUE, !.released = @ + 1,
                !.result = Err(code, "begin")]

Begin(r) ==
    /\ r \in 1..Len(runs)
    /\ runs[r].pc = "begin"
    /\ \E code \in BeginAnswers :
        LET run == [runs[r] EXCEPT !.attempts = @ + 1,
                                   !.lastErr = IF code = "ok" THEN NoErr
                                               ELSE Err(code, "begin")]
        IN IF code = "ok"
           THEN /\ conn' = [txnOpen |-> TRUE, work |-> db]
                /\ runs' = [runs EXCEPT ![r] = AfterBegin(run)]
                /\ UNCHANGED <<pool, faults>>
           ELSE /\ faults' = SpendFault(code)
                /\ UNCHANGED conn
                /\ IF ShouldRetry(code, run.retryCount)
                   THEN /\ runs' = [runs EXCEPT ![r] = [run EXCEPT !.retryCount = @ + 1]]
                        /\ UNCHANGED pool
                   ELSE /\ runs' = WakeNext([runs EXCEPT ![r] = BeginFailed(run, code)], pool)
                        /\ pool' = PoolRelease(pool)
    /\ UNCHANGED <<conf, wrapperRev, db, reads>>
    /\ UNCHANGED storeVars

\* where the chain goes when a statement fails: the .catch that rolls back
AfterStatementFailureCommit == "commit"

AfterStatementFailure == "rollback"

\* what the engine may answer to a statement that is otherwise well-formed
ExecFaults == IF FaultAllowed THEN {"SQLITE_IOERR", "SQLITE_FULL"} ELSE {}

Exec(r) ==
    /\ r \in 1..Len(runs)
    /\ runs[r].pc = "exec"
    /\ LET run == runs[r]
           target == IF conn.txnOpen THEN conn.work ELSE db
           res == StmtResult(run.queries[run.idx], target, r, run.idx)
       IN \E code \in {res.code} \cup ExecFaults :
            IF code = "none"
            THEN /\ IF conn.txnOpen
                    THEN conn' = [conn EXCEPT !.work = res.d] /\ UNCHANGED db
                    ELSE db' = res.d /\ UNCHANGED conn
                 /\ runs' = [runs EXCEPT ![r].idx = @ + 1,
                                         ![r].pc = IF run.idx = Len(run.queries)
                                                   THEN "commit" ELSE "exec"]
                 /\ UNCHANGED faults
            ELSE /\ runs' = [runs EXCEPT ![r].stmtErr = Err(code, "stmt"),
                                         ![r].pc = AfterStatementFailure]
                 \* SQLITE_FULL rolls the transaction back by itself
                 /\ conn' = IF code = "SQLITE_FULL"
                            THEN [txnOpen |-> FALSE, work |-> db] ELSE conn
                 /\ faults' = IF code = res.code THEN faults ELSE SpendFault(code)
                 /\ UNCHANGED db
    /\ UNCHANGED <<conf, wrapperRev, pool, reads>>
    /\ UNCHANGED storeVars

\* a rollback after which the call resolves
RollbackSwallows(rev, stmtErr, rbErr) == NoErr

\* the error the caller gets after the rollback, by revision of the wrapper:
\*   .finally(() => { release(client); throw err; })     (finallyThrow)
\*   .finally(() => release(client)).thenThrow(err)       (thenThrow)
RollbackSettle(rev, stmtErr, rbErr) ==
    IF rev = "finallyThrow" \/ rbErr = NoErr THEN stmtErr ELSE rbErr

RollbackAnswers ==
    IF ~conn.txnOpen THEN {"SQLITE_ERROR"}  \* cannot rollback - no transaction is active
    ELSE {"ok"} \cup (IF FaultAllowed THEN {"SQLITE_IOERR"} ELSE {})

Rollback(r) ==
    /\ r \in 1..Len(runs)
    /\ runs[r].pc = "rollback"
    /\ \E code \in RollbackAnswers :
        LET rbErr == IF code = "ok" THEN NoErr ELSE Err(code, "rollback")
            run == [runs[r] EXCEPT !.pc = "done", !.settled = TRUE,
                                   !.rollbackIssued = TRUE, !.released = @ + 1,
                                   !.result = RollbackSettle(wrapperRev, runs[r].stmtErr, rbErr)]
        IN /\ conn' = IF code = "ok" THEN [txnOpen |-> FALSE, work |-> db] ELSE conn
           /\ faults' = SpendFault(code)
           /\ runs' = WakeNext([runs EXCEPT ![r] = run], pool)
           /\ pool' = PoolRelease(pool)
    /\ UNCHANGED <<conf, wrapperRev, db, reads>>
    /\ UNCHANGED storeVars

\* how many transactions have committed so far
CommitCount == Cardinality({x \in 1..Len(runs) : runs[x].commitSeq > 0})

\* a failed commit leaves the transaction open (BUSY) or rolled back (I/O error)
CommitAnswers ==
    IF ~conn.txnOpen THEN {"SQLITE_ERROR"}  \* cannot commit - no transaction is active
    ELSE {"ok"} \cup (IF FaultAllowed THEN {"SQLITE_BUSY", "SQLITE_IOERR"} ELSE {})

Commit(r) ==
    /\ r \in 1..Len(runs)
    /\ runs[r].pc = "commit"
    /\ \E code \in CommitAnswers :
        LET run == [runs[r] EXCEPT !.pc = "done", !.settled = TRUE,
                                   !.commitIssued = TRUE, !.released = @ + 1,
                                   !.commitSeq = IF code = "ok" THEN CommitCount + 1 ELSE 0,
                                   !.result = IF code = "ok" THEN NoErr
                                              ELSE Err(code, "commit")]
        IN /\ db' = IF code = "ok" THEN conn.work ELSE db
           /\ conn' = IF code \in {"ok", "SQLITE_IOERR"}
                      THEN [txnOpen |-> FALSE, work |-> db'] ELSE conn
           /\ faults' = SpendFault(code)
           /\ runs' = WakeNext([runs EXCEPT ![r] = run], pool)
           /\ pool' = PoolRelease(pool)
    /\ UNCHANGED <<conf, wrapperRev, reads>>
    /\ UNCHANGED storeVars

(***************************************************************************)
(* Wrapper.all: the statement runs on the reader connection and is retried *)
(* on BUSY.                                                                *)
(***************************************************************************)
\* a compiled get: the rows of one key with tid >= minTid that pass the gate,
\* ordered by tid descending; t is the time parameter of the gate
GetQ(key, minTid, includePreparedForDelete, t) ==
    [from |-> "data", key |-> key, minTid |-> minTid,
     includePreparedForDelete |-> includePreparedForDelete, t |-> t]
NoQuery == GetQ(0, 0, FALSE, 0)
\* the schema lookup: the rows of [global_schema_data] for one table, newest first
MetaQ(table) == [from |-> "meta", table |-> table]

RECURSIVE SortByTidDesc(_)
SortByTidDesc(rows) ==
    IF rows = {} THEN <<>>
    ELSE LET top == CHOOSE row \in rows : \A other \in rows : other.tid <= row.tid
         IN <<top>> \o SortByTidDesc(rows \ {top})

SelectRows(query, d) ==
    IF query.from = "meta"
    THEN SelectSeq(d.meta, LAMBDA row : row.table = query.table)
    ELSE SortByTidDesc({row \in d.rows :
            /\ row.key = query.key
            /\ row.tid >= query.minTid
            /\ Gate(row, query.includePreparedForDelete, query.t)})

NewRead(owner, query) ==
    [owner |-> owner, query |-> query, pc |-> "exec", retryCount |-> 0,
     attempts |-> 0, rows |-> <<>>, result |-> NoErr,
     lastErr |-> NoErr,     \* what the last all_p(params) was answered
     finalized |-> FALSE]   \* statement.finalize() was called on the statement

AllAnswers == {"ok"} \cup (IF FaultAllowed THEN {"SQLITE_BUSY", "SQLITE_IOERR"} ELSE {})

\* a select without a where clause that is given the time parameter of the
\* gate: the statement has no placeholder to bind it to
ScanQ(t) == [from |-> "scan", t |-> t]
\* what the engine answers to all(params) of the statement
AllAnswersOf(query) == IF query.from = "scan" THEN {"SQLITE_RANGE"} ELSE AllAnswers

All(q) ==
    /\ q \in 1..Len(reads)
    /\ reads[q].pc = "exec"
    /\ \E code \in AllAnswersOf(reads[q].query) :
        LET rd == [reads[q] EXCEPT !.attempts = @ + 1,
                                   !.lastErr = IF code = "ok" THEN NoErr
                                               ELSE Err(code, "all")]
        IN /\ faults' = SpendFault(code)
           /\ reads' = [reads EXCEPT ![q] =
                IF code = "ok"
                THEN [rd EXCEPT !.pc = "done", !.rows = SelectRows(rd.query, db)]
                ELSE IF ShouldRetry(code, rd.retryCount)
                     THEN [rd EXCEPT !.retryCount = @ + 1]
                     ELSE [rd EXCEPT !.pc = "done", !.result = Err(code, "all")]]
    /\ UNCHANGED <<conf, wrapperRev, pool, conn, db, runs>>
    /\ UNCHANGED storeVars

(***************************************************************************)
(* Schemas as the validator hands them over (normalised), and the          *)
(* schema-info that dbu.makeSchemaInfo derives from them.                  *)
(***************************************************************************)
RetentionCount == 1
GraceTtl == 1
IntervalSec == 2
PolicyTypes == {"all", "latest", "latest_hash", "interval"}
Policy(type) ==
    [type |-> type, count |-> RetentionCount, grace_ttl |-> GraceTtl,
     interval |-> IntervalSec]

IndexElem(attribute, type, order) ==
    [attribute |-> attribute, type |-> type, order |-> order]

Attrs0 == [a \in {"key", "tid", "val"} |-> IF a = "tid" THEN "timeuuid" ELSE "string"]
AttrsExtra ==
    [a \in {"key", "tid", "val", "extra"} |-> IF a = "tid" THEN "timeuuid" ELSE "string"]
AttrsRetyped == [Attrs0 EXCEPT !["val"] = "int"]
AttrChoices == {Attrs0, AttrsExtra, AttrsRetyped}

KeyElem == IndexElem("key", "hash", "none")
TidElem == IndexElem("tid", "range", "desc")
Index0 == <<KeyElem, TidElem>>
IndexChoices ==
    {Index0,
     <<KeyElem, TidElem, IndexElem("extra", "static", "none")>>,
     <<KeyElem, IndexElem("extra", "range", "desc"), TidElem>>,
     <<KeyElem, IndexElem("extra", "hash", "none"), TidElem>>,
     <<KeyElem>>,
     <<KeyElem, TidElem, IndexElem("val", "static", "none")>>,
     <<KeyElem, IndexElem("tid", "static", "none")>>}

NoSecondary == [n \in {} |-> "none"]
OneSecondary == [n \in {"idx"} |-> "val"]

BaseSchema ==
    [table |-> "T", version |-> 1, attributes |-> Attrs0, index |-> Index0,
     secondaryIndexes |-> NoSecondary, revisionRetentionPolicy |-> Policy("all")]
\* a schema with a static column and a secondary index
RichSchema ==
    [BaseSchema EXCEPT !.attributes = AttrsExtra,
                       !.index = <<KeyElem, TidElem, IndexElem("extra", "static", "none")>>,
                       !.secondaryIndexes = OneSecondary]

IndexElems(schema) == {schema.index[i] : i \in 1..Len(schema.index)}

\* what the validator requires of an index
ValidSchema(schema) ==
    /\ \A e \in IndexElems(schema) : e.attribute \in DOMAIN schema.attributes
    /\ \E e \in IndexElems(schema) : e.type = "hash"
    /\ \A n \in DOMAIN schema.secondaryIndexes :
            schema.secondaryIndexes[n] \in DOMAIN schema.attributes

Versions == {1, 2}
Proposals ==
    {schema \in [table : {"T"}, version : Versions, attributes : AttrChoices,
                 index : IndexChoices, secondaryIndexes : {NoSecondary, OneSecondary},
                 revisionRetentionPolicy : {Policy("all")}] : ValidSchema(schema)}

\* the first createTable request proposes any of the schemas above, a later
\* one proposes one of these: the base schema, an added column, an added
\* range key, and the rich schema without its secondary index
FollowUpProposals ==
    {BaseSchema,
     [BaseSchema EXCEPT !.version = 2, !.attributes = AttrsExtra],
     [BaseSchema EXCEPT !.version = 2, !.attributes = AttrsExtra,
                        !.index = <<KeyElem, IndexElem("extra", "range", "desc"), TidElem>>],
     [RichSchema EXCEPT !.version = 2, !.secondaryIndexes = NoSecondary]}
ProposalsOf(t) == IF t = 1 THEN Proposals ELSE FollowUpProposals

\* dbu.makeSchemaInfo: the _domain hash key and the _exist_until column
MakeSchemaInfo(schema) ==
    [schema EXCEPT
        !.attributes = [a \in DOMAIN schema.attributes \cup {"_domain", "_exist_until"} |->
                            IF a = "_domain" THEN "string"
                            ELSE IF a = "_exist_until" THEN "timestamp"
                            ELSE schema.attributes[a]],
        !.index = <<IndexElem("_domain", "hash", "none")>> \o schema.index]

\* psi.hash = stringify(psi), of the schema-info before the converters are added
SchemaHash(info) ==
    <<info.table, info.version, info.attributes, info.index, info.secondaryIndexes,
      info.revisionRetentionPolicy>>

\* the order in which Object.keys lists the attributes of a schema-info
AttrOrder == <<"key", "tid", "val", "extra", "_domain", "_exist_until">>

IndexTypeOf(schema, attr) ==
    IF \E e \in IndexElems(schema) : e.attribute = attr
    THEN (CHOOSE e \in IndexElems(schema) : e.attribute = attr).type
    ELSE "none"

\* dbu.staticTableExist
StaticTableExist(schema) == \E e \in IndexElems(schema) : e.type = "static"

\* the columns of the physical tables that _createTable creates
DataCols(info) == {a \in DOMAIN info.attributes : IndexTypeOf(info, a) # "static"}
StaticCols(info) ==
    IF ~StaticTableExist(info) THEN {}
    ELSE {e.attribute : e \in {x \in IndexElems(info) : x.type \in {"hash", "static"}}}
SecondaryCols(info) ==
    IF DOMAIN info.secondaryIndexes = {} THEN {}
    ELSE {e.attribute : e \in {x \in IndexElems(info) : x.type \in {"hash", "range"}}}
            \cup {info.secondaryIndexes[n] : n \in DOMAIN info.secondaryIndexes}

PhysicalTables(info) ==
    [data |-> DataCols(info), static |-> StaticCols(info),
     secondaryIndex |-> SecondaryCols(info), indexes |-> DOMAIN info.secondaryIndexes]

(***************************************************************************)
(* DB.put / DB._put on table T, whose index is key (hash), tid (range,     *)
(* desc), with one value column, and RBSQLite.put, which answers 201 when  *)
(* DB.put resolves and 500 when it rejects.                                *)
(***************************************************************************)
PutSchema(policy) == [BaseSchema EXCEPT !.revisionRetentionPolicy = policy]

PutKeys == {1}
PutTids == {0, 1000}     \* 0: the request has no tid
PutTtls == {0, 1}        \* 0: the request has no _ttl
\* the t-th request writes the value t
PutRequests(t) ==
    {[key |-> k, tid |-> tid, val |-> t, ttl |-> ttl] :
        k \in PutKeys, tid \in PutTids, ttl \in PutTtls}

\* _put: default tid, _ttl turned into _exist_until
PutAttributes(req) ==
    [key |-> req.key,
     tid |-> IF req.tid = 0 THEN now ELSE req.tid,
     val |-> req.val,
     eu |-> IF req.ttl # 0 THEN now + req.ttl * 1000 ELSE Unset]

\* dbu.buildPutQuery for a request without `if`: update, then insert or ignore
BuildPutQuery(attrs, t) ==
    <<UpdateQ(attrs.key, attrs.tid, attrs.val, attrs.eu, t),
      InsertQ(attrs.key, attrs.tid, attrs.val, attrs.eu)>>

NewPutTask(attrs, run, inFlight) ==
    [kind |-> "put", attrs |-> attrs, pc |-> "run", run |-> run, read |-> 0,
     olderFrom |-> 0, olderTo |-> 0, retRead |-> 0, retRun |-> 0,
     pass |-> "none", status |-> 0, inFlight |-> inFlight]

TaskIds == 1..Len(tasks)
Unanswered == {t \in TaskIds : tasks[t].status = 0}

CallPut ==
    /\ Len(tasks) < NPuts
    /\ schemaCache["T"] # NoSchema
    /\ \E req \in PutRequests(Len(tasks) + 1) :
        LET attrs == PutAttributes(req)
        IN /\ tasks' = Append(tasks, NewPutTask(attrs, Len(runs) + 1, Unanswered))
           /\ StartRun(Len(tasks) + 1, TRUE, BuildPutQuery(attrs, now))
    /\ UNCHANGED <<conf, wrapperRev, conn, db, reads, faults,
                   now, schemaCache, queryCache, compiled>>

\* DB.infoSchemaInfo, the schema-info of [global_schema_data]
infoSchema ==
    [table |-> "meta", version |-> 1,
     attributes |-> [a \in {"table", "value", "tid"} |->
                        IF a = "tid" THEN "timeuuid" ELSE IF a = "value" THEN "json" ELSE "string"],
     index |-> <<IndexElem("table", "hash", "none"), IndexElem("tid", "range", "desc")>>,
     secondaryIndexes |-> NoSecondary, revisionRetentionPolicy |-> Policy("all")]
infoSchemaInfo == MakeSchemaInfo(infoSchema)

\* _createGetQuery on a miss: buildGetQuery(tableName, req, schema, ...) is
\* prepared and set under the key; on a hit the cached statement is kept
Prepared(key, schema) ==
    [k \in queryCache \cup {key} |-> IF k \in queryCache THEN compiled[k] ELSE schema]

\* a cache whose statements were built by earlier requests: those of
\* [global_schema_data] from infoSchemaInfo, the others from the schema-info
PreparedFrom(cache, schema) ==
    [k \in cache |-> IF k.table = "global_schema" THEN infoSchemaInfo ELSE schema]

\* _createGetQuery: the cache key is the table name and the request with its
\* values nulled, i.e. the shape of the request
CacheKeyOfT(table, shape) == [table |-> "T", shape |-> shape]

CacheKey(table, shape) == [table |-> table, shape |-> shape]

\* _deleteOlderContent's dataQuery: the hash keys, and the first range key
\* that is not the tid (T has none)
OlderQuery(attrs) == GetQ(attrs.key, 0, FALSE, 0)

\* _revisionPolicyUpdate's dataQuery
IntervalLimitTime(policy, tidTime) ==
    tidTime - (tidTime % (policy.interval * 1000))

RetentionQuery(policy, attrs) ==
    IF policy.type = "interval"
    THEN GetQ(attrs.key, IntervalLimitTime(policy, attrs.tid), FALSE, 0)
    ELSE GetQ(attrs.key, 0, FALSE, 0)

RetentionShape(policy) ==
    IF policy.type = "interval" THEN "key,tid.ge,order" ELSE "key,order"

\* the last handler of _put: _revisionPolicyUpdate is started and not
\* awaited, and the put resolves with status 201
PutResolves(t) ==
    LET policy == schemaCache["T"].revisionRetentionPolicy
    IN IF policy.type = "all"
       THEN /\ tasks' = [tasks EXCEPT ![t].status = 201, ![t].pc = "finished"]
            /\ UNCHANGED <<reads, queryCache, compiled>>
       ELSE /\ tasks' = [tasks EXCEPT ![t].status = 201, ![t].pc = "retGet",
                                       ![t].pass = "reading",
                                       ![t].retRead = Len(reads) + 1]
            /\ reads' = Append(reads, NewRead(t, RetentionQuery(policy, tasks[t].attrs)))
            /\ queryCache' = queryCache \cup {CacheKey("T", RetentionShape(policy))}
            /\ compiled' = Prepared(CacheKey("T", RetentionShape(policy)), schemaCache["T"])

\* the put's transaction has settled
PutAfterRun(t) ==
    /\ t \in TaskIds
    /\ tasks[t].kind = "put" /\ tasks[t].pc = "run"
    /\ runs[tasks[t].run].settled
    /\ IF runs[tasks[t].run].result # NoErr
       THEN /\ tasks' = [tasks EXCEPT ![t].status = 500, ![t].pc = "finished"]
            /\ UNCHANGED <<reads, queryCache, compiled>>
       ELSE IF schemaCache["T"].revisionRetentionPolicy.type = "latest_hash"
            THEN /\ tasks' = [tasks EXCEPT ![t].pc = "olderGet",
                                            ![t].read = Len(reads) + 1]
                 /\ reads' = Append(reads, NewRead(t, OlderQuery(tasks[t].attrs)))
                 /\ queryCache' = queryCache \cup {CacheKey("T", "key")}
                 /\ compiled' = Prepared(CacheKey("T", "key"), schemaCache["T"])
            ELSE PutResolves(t)
    /\ UNCHANGED <<conf, wrapperRev, pool, conn, db, runs, faults, now, schemaCache>>

\* several run() calls made in one handler, in order
RECURSIVE StartedRuns(_, _, _, _)
StartedRuns(rs, p, owner, qss) ==
    IF qss = <<>> THEN [runs |-> rs, pool |-> p]
    ELSE StartedRuns(Append(rs, NewRun(owner, TRUE, Head(qss), CanDispense(p))),
                     PoolAcquire(p, Len(rs) + 1), owner, Tail(qss))

\* _deleteOlderContent: one run() per row read, each with its own .catch
DeleteRowRuns(rows, t) == [i \in 1..Len(rows) |-> <<DeleteOlderQ(rows[i].key, rows[i].tid, t)>>]

\* _deleteOlderContent's get has settled (latest_hash only); its failure is
\* the failure of the put
OlderGot(t) ==
    /\ t \in TaskIds
    /\ tasks[t].kind = "put" /\ tasks[t].pc = "olderGet"
    /\ reads[tasks[t].read].pc = "done"
    /\ LET rd == reads[tasks[t].read]
       IN IF rd.result # NoErr
          THEN /\ tasks' = [tasks EXCEPT ![t].status = 500, ![t].pc = "finished"]
               /\ UNCHANGED <<pool, runs, reads, queryCache, compiled>>
          ELSE IF rd.rows = <<>>
               THEN PutResolves(t) /\ UNCHANGED <<pool, runs>>
               ELSE LET started == StartedRuns(runs, pool, t, DeleteRowRuns(rd.rows, now))
                    IN /\ runs' = started.runs
                       /\ pool' = started.pool
                       /\ tasks' = [tasks EXCEPT ![t].pc = "olderDel",
                                                  ![t].olderFrom = Len(runs) + 1,
                                                  ![t].olderTo = Len(runs) + Len(rd.rows)]
                       /\ UNCHANGED <<reads, queryCache, compiled>>
    /\ UNCHANGED <<conf, wrapperRev, conn, db, faults, now, schemaCache>>

\* every deleteRow has settled; a failed one was logged and swallowed
OlderDeleted(t) ==
    /\ t \in TaskIds
    /\ tasks[t].kind = "put" /\ tasks[t].pc = "olderDel"
    /\ \A r \in tasks[t].olderFrom..tasks[t].olderTo : runs[r].settled
    /\ PutResolves(t)
    /\ UNCHANGED <<conf, wrapperRev, pool, conn, db, runs, faults, now, schemaCache>>

\* setTTLs: result.items.slice(count)
ExtraItemsKeepOneMore(items, count) == SubSeq(items, count + 2, Len(items))

ExtraItems(items, count) == SubSeq(items, count + 1, Len(items))

\* setTTLs: a put of every extra item with _exist_until = expireTime
\* (ignoreStatic), then the purge of the expired rows
RECURSIVE SetTTLPuts(_, _, _)
SetTTLPuts(items, expireTime, t) ==
    IF items = <<>> THEN <<>>
    ELSE BuildPutQuery([key |-> Head(items).key, tid |-> Head(items).tid,
                        val |-> Head(items).val, eu |-> expireTime], t)
            \o SetTTLPuts(Tail(items), expireTime, t)

SetTTLQueries(items, policy, t) ==
    Append(SetTTLPuts(ExtraItems(items, policy.count), t + policy.grace_ttl * 1000, t),
           DeleteExpiredQ(t))

\* the retention read has settled: setTTLs, or an unhandled rejection
RetGot(t) ==
    /\ t \in TaskIds
    /\ tasks[t].kind = "put" /\ tasks[t].pc = "retGet"
    /\ reads[tasks[t].retRead].pc = "done"
    /\ LET rd == reads[tasks[t].retRead]
           policy == schemaCache["T"].revisionRetentionPolicy
       IN IF rd.result # NoErr
          THEN /\ tasks' = [tasks EXCEPT ![t].pc = "finished", ![t].pass = "failed"]
               /\ UNCHANGED <<pool, runs>>
          ELSE IF Len(rd.rows) > policy.count
               THEN /\ tasks' = [tasks EXCEPT ![t].pc = "retRun", ![t].pass = "writing",
                                               ![t].retRun = Len(runs) + 1]
                    /\ StartRun(t, TRUE, SetTTLQueries(rd.rows, policy, now))
               ELSE /\ tasks' = [tasks EXCEPT ![t].pc = "finished", ![t].pass = "clean"]
                    /\ UNCHANGED <<pool, runs>>
    /\ UNCHANGED <<conf, wrapperRev, conn, db, reads, faults, now, schemaCache, queryCache, compiled>>

Tick ==
    /\ now < StartTime + MaxTicks * TickMs
    /\ now' = now + TickMs
    /\ UNCHANGED <<conf, wrapperRev, pool, conn, db, runs, reads, faults,
                   schemaCache, queryCache, compiled, tasks>>

(***************************************************************************)
(* The wrapper specification: callers of run() and all().                  *)
(***************************************************************************)
RawInputs ==
    {[isArray |-> TRUE, queries |-> qs] : qs \in RawQueryLists}
        \cup {[isArray |-> FALSE, queries |-> <<>>]}
RetryInputs == {[isArray |-> TRUE, queries |-> <<Mark>>]}

CallRun(limit, inputs) ==
    /\ Len(runs) < limit
    /\ \E in \in inputs : StartRun(0, in.isArray, in.queries)
    /\ UNCHANGED <<conf, wrapperRev, conn, db, reads, faults>>
    /\ UNCHANGED storeVars

CallAll ==
    /\ Len(reads) < NReads
    /\ reads' = Append(reads, NewRead(0, NoQuery))
    /\ UNCHANGED <<conf, wrapperRev, pool, conn, db, runs, faults>>
    /\ UNCHANGED storeVars

\* the physical tables of T as column sets ({}: the table does not exist) and
\* the SQLite indexes over [T_secondaryIndex]
NoTables == [data |-> {}, static |-> {}, secondaryIndex |-> {}, indexes |-> {}]

\* a database that holds the empty meta table [global_schema_data] only
EmptyDb ==
    [marks |-> {}, rows |-> {}, statics |-> {}, index |-> {}, meta |-> <<>>,
     tables |-> NoTables]

InitWrapper ==
    /\ pool = [holder |-> 0, queue |-> <<>>]
    /\ conn = [txnOpen |-> FALSE, work |-> EmptyDb]
    /\ runs = <<>>
    /\ reads = <<>>

\* the database after createTable of the schema, with the given data rows
StoredTable(schema, rows) ==
    [marks |-> {}, rows |-> rows, statics |-> {}, index |-> {},
     meta |-> <<[table |-> schema.table, value |-> schema]>>,
     tables |-> PhysicalTables(MakeSchemaInfo(schema))]

\* a storage service that has no table and has served no request
InitIdleStore ==
    /\ db = EmptyDb
    /\ now = StartTime
    /\ schemaCache = [n \in TableNames |-> NoSchema]
    /\ queryCache = {}
    /\ compiled = PreparedFrom({}, NoSchema)
    /\ tasks = <<>>

Init ==
    /\ conf = [retry_limit |-> 1]
    /\ wrapperRev \in WrapperRevs
    /\ faults = Unbudgeted
    /\ InitWrapper
    /\ InitIdleStore

Next ==
    \/ CallRun(NCalls, RawInputs)
    \/ \E r \in 1..NCalls : Begin(r)
    \/ \E r \in 1..NCalls : Exec(r)
    \/ \E r \in 1..NCalls : Rollback(r)
    \/ \E r \in 1..NCalls : Commit(r)

Spec == Init /\ [][Next]_vars

(***************************************************************************)
(* The retry specification: one run() and one all(), each against an       *)
(* engine that may answer BUSY any number of times.                        *)
(***************************************************************************)
InitRetry ==
    /\ conf \in [retry_limit : ConfRetryLimits]
    /\ wrapperRev \in WrapperRevs
    /\ faults = Unbudgeted
    /\ InitWrapper
    /\ InitIdleStore

NextRetry ==
    \/ CallRun(NRetryCalls, RetryInputs)
    \/ CallAll
    \/ \E r \in 1..NRetryCalls : Begin(r)
    \/ \E r \in 1..NRetryCalls : Exec(r)
    \/ \E r \in 1..NRetryCalls : Rollback(r)
    \/ \E r \in 1..NRetryCalls : Commit(r)
    \/ \E q \in 1..NReads : All(q)

SpecRetry == InitRetry /\ [][NextRetry]_vars

(***************************************************************************)
(* SchemaMigrator: one handler per axis of the schema, constructed and     *)
(* validated in the order of migrationHandlers.                            *)
(***************************************************************************)
MigrationHandlersVersionOnly == <<"version">>

MigrationHandlers == <<"table", "attributes", "index", "secondaryIndexes", "version">>

\* Unsupported.validate compares the .hash property of the two table names,
\* which no string has
HashPropertyOf(tableName) == "undefined"
TableValid(current, proposed) == HashPropertyOf(current.table) = HashPropertyOf(proposed.table)

\* Attributes: addColumns in the order of the proposed attributes
AddColumns(current, proposed) ==
    SelectSeq(AttrOrder, LAMBDA a : a \in DOMAIN proposed.attributes
                                      /\ a \notin DOMAIN current.attributes)
\* a validate that refuses added columns
AttributesValidNoAdditions(current, proposed) == AddColumns(current, proposed) = <<>>

\* Attributes.validate returns without a check
AttributesValid(current, proposed) == TRUE

\* Index._hasSameIndex
HasSameIndex(indexes, x) ==
    \E i \in 1..Len(indexes) :
        /\ indexes[i].attribute = x.attribute
        /\ indexes[i].type = x.type
        /\ indexes[i].order = x.order
AddIndex(current, proposed) ==
    {x \in IndexElems(proposed) : ~HasSameIndex(current.index, x)}
DelIndex(current, proposed) ==
    {x \in IndexElems(current) : ~HasSameIndex(proposed.index, x)}
AlteredColumns(current, proposed) ==
    {x.attribute : x \in {y \in AddIndex(current, proposed) :
                              y.attribute \in DOMAIN current.attributes}}
        \cup {x.attribute : x \in {y \in DelIndex(current, proposed) :
                                      y.attribute \in DOMAIN proposed.attributes}}

\* Index.validate
IndexValidAlteredOnly(current, proposed) == AlteredColumns(current, proposed) = {}

IndexValid(current, proposed) ==
    /\ ~((\E x \in AddIndex(current, proposed) : x.type # "static")
          \/ (\E y \in DelIndex(current, proposed) : y.type # "static"))
    /\ ~(AlteredColumns(current, proposed) # {})

\* SecondaryIndexes
DeletedIndexes(current, proposed) ==
    DOMAIN current.secondaryIndexes \ DOMAIN proposed.secondaryIndexes
AddedIndexes(current, proposed) ==
    DOMAIN proposed.secondaryIndexes \ DOMAIN current.secondaryIndexes
ChangedIndexes(current, proposed) ==
    {n \in DOMAIN current.secondaryIndexes \cap DOMAIN proposed.secondaryIndexes :
        current.secondaryIndexes[n] # proposed.secondaryIndexes[n]}
SecondaryIndexesValid(current, proposed) ==
    /\ ~(AddedIndexes(current, proposed) # {})
    /\ ~(ChangedIndexes(current, proposed) # {})

\* a validate that lets an equal version pass
VersionValidNotLower(current, proposed) == ~(current.version > proposed.version)

\* Version.validate
VersionValid(current, proposed) == ~(current.version >= proposed.version)

AxisValid(axis, current, proposed) ==
    CASE axis = "table" -> TableValid(current, proposed)
      [] axis = "attributes" -> AttributesValid(current, proposed)
      [] axis = "index" -> IndexValid(current, proposed)
      [] axis = "secondaryIndexes" -> SecondaryIndexesValid(current, proposed)
      [] OTHER -> VersionValid(current, proposed)

\* new SchemaMigrator(...) throws: _validate runs every handler's validate
MigratorThrows(current, proposed) ==
    \E i \in 1..Len(MigrationHandlers) :
        ~AxisValid(MigrationHandlers[i], current, proposed)

\* Attributes._alterTableAdd
AlterTableAdd(current, proposed, col) ==
    IF IndexTypeOf(proposed, col) = "static"
    THEN IF ~StaticTableExist(current)
         THEN CreateTableQ("static", StaticCols(proposed))
         ELSE AddColumnQ("static", col)
    ELSE AddColumnQ("data", col)

(***************************************************************************)
(* DB.createTable on table T and RBSQLite.createTable, which answers 201   *)
(* when it resolves, the error's own status and body when the error has a  *)
(* status >= 400, and 500 otherwise.                                       *)
(***************************************************************************)
NewCreateTask(proposed, read) ==
    [kind |-> "createTable", proposed |-> proposed, pc |-> "getSchema",
     read |-> read, current |-> NoSchema, run |-> 0, cols |-> <<>>,
     status |-> 0, bodyType |-> "none"]

\* createTable up to the read of _getSchema
CreateCall(proposed) ==
    /\ tasks' = Append(tasks, NewCreateTask(proposed, Len(reads) + 1))
    /\ reads' = Append(reads, NewRead(Len(tasks) + 1, MetaQ("T")))
    /\ queryCache' = queryCache \cup {CacheKey("global_schema", "table")}
    /\ compiled' = Prepared(CacheKey("global_schema", "table"), infoSchemaInfo)
    /\ UNCHANGED <<conf, wrapperRev, pool, conn, db, runs, faults, now, schemaCache>>

CallCreateTable ==
    /\ Len(tasks) < NCreates
    /\ \E proposed \in ProposalsOf(Len(tasks) + 1) : CreateCall(proposed)

\* createTable of the base schema, in the race specification
CallCreateTableLater ==
    /\ Len(tasks) < NLifecycle
    /\ CreateCall(BaseSchema)

Answer(t, status, bodyType) ==
    [tasks EXCEPT ![t].status = status, ![t].bodyType = bodyType, ![t].pc = "finished"]

\* DB._createTable: the data table, the static table, the secondary index
\* table and its indexes
RECURSIVE SetToSeq(_)
SetToSeq(S) == IF S = {} THEN <<>> ELSE LET x == CHOOSE y \in S : TRUE
                                        IN <<x>> \o SetToSeq(S \ {x})
CreateTableQueries(info) ==
    <<CreateTableQ("data", DataCols(info)),
      IF StaticTableExist(info) THEN CreateTableQ("static", StaticCols(info)) ELSE NoSql>>
    \o (IF DOMAIN info.secondaryIndexes = {} THEN <<>>
        ELSE <<CreateTableQ("secondaryIndex", SecondaryCols(info))>>
                \o [i \in 1..Cardinality(DOMAIN info.secondaryIndexes) |->
                        CreateIndexQ(SetToSeq(DOMAIN info.secondaryIndexes)[i])])

\* the characters of a table name
Chars(name) ==
    CASE name = "T" -> <<"T">>
      [] name = "T2" -> <<"T", "2">>
      [] name = "U" -> <<"U">>
      [] OTHER -> <<"g", "l", "o", "b", "a", "l", "_", "s", "c", "h", "e", "m", "a">>

\* the key of _createGetQuery: `${tableName}:${stringify(req)}`
KeyString(key) == Chars(key.table) \o <<":", key.shape>>

\* key.indexOf(tableName) === 0 on the keys of the statement cache
KeyStartsWith(key, tableName) ==
    /\ Len(Chars(tableName)) <= Len(KeyString(key))
    /\ SubSeq(KeyString(key), 1, Len(Chars(tableName))) = Chars(tableName)

\* the table whose statement an all() call runs
StatementTable(query) == IF query.from = "meta" THEN "global_schema" ELSE "T"

\* queryCache.del(key) disposes of the statement: statement.finalize(), which
\* every all() call that still holds the statement sees
Finalize(rds, tableName) ==
    [q \in 1..Len(rds) |->
        IF \E key \in queryCache :
                key.table = StatementTable(rds[q].query) /\ KeyStartsWith(key, tableName)
        THEN [rds[q] EXCEPT !.finalized = TRUE] ELSE rds[q]]

\* the rest of the migration once the columns are added: the drops of the
\* deleted secondary indexes are started and not awaited, the statements of
\* the table leave the cache, the schema cache is replaced and the meta row
\* is put
MigrateTail(t, current, info) ==
    LET drops == [i \in 1..Cardinality(DeletedIndexes(current, info)) |->
                    <<DropIndexQ(SetToSeq(DeletedIndexes(current, info))[i])>>]
        started == StartedRuns(runs, pool, t,
                               Append(drops, <<MetaPutQ("T", tasks[t].proposed)>>))
    IN /\ runs' = started.runs
       /\ pool' = started.pool
       /\ queryCache' = {key \in queryCache : ~KeyStartsWith(key, "T")}
       /\ compiled' = [key \in queryCache' |-> compiled[key]]
       /\ reads' = Finalize(reads, "T")
       /\ schemaCache' = [schemaCache EXCEPT !["T"] = info]
       /\ tasks' = [tasks EXCEPT ![t].pc = "metaPut", ![t].current = current,
                                  ![t].run = Len(started.runs)]

\* the schema lookup has settled: the .then handler of createTable
CreateGotSchema(t) ==
    /\ t \in 1..Len(tasks)
    /\ tasks[t].kind = "createTable" /\ tasks[t].pc = "getSchema"
    /\ reads[tasks[t].read].pc = "done"
    /\ LET rd == reads[tasks[t].read]
           info == MakeSchemaInfo(tasks[t].proposed)
           current == IF rd.rows = <<>> THEN NoSchema ELSE MakeSchemaInfo(rd.rows[1].value)
           cols == AddColumns(current, info)
       IN IF rd.result # NoErr
          THEN /\ tasks' = Answer(t, 500, "table_creation_error")
               /\ UNCHANGED <<pool, runs, reads, schemaCache, queryCache, compiled>>
          ELSE IF current = NoSchema
          THEN /\ tasks' = [tasks EXCEPT ![t].pc = "ddl", ![t].run = Len(runs) + 1]
               /\ StartRun(t, TRUE, CreateTableQueries(info))
               /\ UNCHANGED <<reads, schemaCache, queryCache, compiled>>
          ELSE IF SchemaHash(current) = SchemaHash(info)
          THEN /\ tasks' = [Answer(t, 201, "table_created") EXCEPT ![t].current = current]
               /\ UNCHANGED <<pool, runs, reads, schemaCache, queryCache, compiled>>
          ELSE IF MigratorThrows(current, info)
          THEN /\ tasks' = [Answer(t, 400, "bad_request") EXCEPT ![t].current = current]
               /\ UNCHANGED <<pool, runs, reads, schemaCache, queryCache, compiled>>
          ELSE IF cols # <<>>
          THEN /\ tasks' = [tasks EXCEPT ![t].pc = "addColumns", ![t].current = current,
                                          ![t].cols = cols, ![t].run = Len(runs) + 1]
               /\ StartRun(t, TRUE, <<AlterTableAdd(current, info, cols[1])>>)
               /\ UNCHANGED <<reads, schemaCache, queryCache, compiled>>
          ELSE MigrateTail(t, current, info)
    /\ UNCHANGED <<conf, wrapperRev, conn, db, faults, now>>

\* a catch that ignores no error
IgnoresNoError(err) == FALSE

\* Attributes.migrate: the catch that ignores a column that exists already
IsDuplicateColumn(err) == err.code = "SQLITE_ERROR: duplicate column name"

\* the ADD COLUMN of one column has settled
CreateColumnAdded(t) ==
    /\ t \in 1..Len(tasks)
    /\ tasks[t].kind = "createTable" /\ tasks[t].pc = "addColumns"
    /\ runs[tasks[t].run].settled
    /\ LET err == runs[tasks[t].run].result
           info == MakeSchemaInfo(tasks[t].proposed)
           rest == Tail(tasks[t].cols)
       IN IF err # NoErr /\ ~IsDuplicateColumn(err)
          THEN /\ tasks' = Answer(t, 500, "table_creation_error")
               /\ UNCHANGED <<pool, runs, reads, schemaCache, queryCache, compiled>>
          ELSE IF rest # <<>>
          THEN /\ tasks' = [tasks EXCEPT ![t].cols = rest, ![t].run = Len(runs) + 1]
               /\ StartRun(t, TRUE, <<AlterTableAdd(tasks[t].current, info, rest[1])>>)
               /\ UNCHANGED <<reads, schemaCache, queryCache, compiled>>
          ELSE MigrateTail(t, tasks[t].current, info)
    /\ UNCHANGED <<conf, wrapperRev, conn, db, faults, now>>

\* the transaction of _createTable has settled
CreateTableDone(t) ==
    /\ t \in 1..Len(tasks)
    /\ tasks[t].kind = "createTable" /\ tasks[t].pc = "ddl"
    /\ runs[tasks[t].run].settled
    /\ IF runs[tasks[t].run].result # NoErr
       THEN /\ tasks' = Answer(t, 500, "table_creation_error")
            /\ UNCHANGED <<pool, runs, schemaCache>>
       ELSE /\ schemaCache' = [schemaCache EXCEPT !["T"] = MakeSchemaInfo(tasks[t].proposed)]
            /\ tasks' = [tasks EXCEPT ![t].pc = "metaPut", ![t].run = Len(runs) + 1]
            /\ StartRun(t, TRUE, <<MetaPutQ("T", tasks[t].proposed)>>)
    /\ UNCHANGED <<conf, wrapperRev, conn, db, reads, faults, now, queryCache, compiled>>

\* the put of the meta row has settled
CreateMetaPut(t) ==
    /\ t \in 1..Len(tasks)
    /\ tasks[t].kind = "createTable" /\ tasks[t].pc = "metaPut"
    /\ runs[tasks[t].run].settled
    /\ tasks' = IF runs[tasks[t].run].result # NoErr
                THEN Answer(t, 500, "table_creation_error")
                ELSE Answer(t, 201, "table_created")
    /\ UNCHANGED <<conf, wrapperRev, pool, conn, db, runs, reads, faults,
                   now, schemaCache, queryCache, compiled>>

(***************************************************************************)
(* DB.dropTable on table T, in the revision that drops the secondary index *)
(* tables (dropTable) and in the later one that has none (_dropTable), and  *)
(* RBSQLite.dropTable, which answers 204 when it resolves and 500 when it  *)
(* rejects.                                                                *)
(***************************************************************************)
DropRevs == {"dropTable", "_dropTable"}

NewDropTask(rev, absent) ==
    [kind |-> "dropTable", rev |-> rev, pc |-> "getSchema", read |-> 0, run |-> 0,
     absent |-> absent, status |-> 0, bodyType |-> "none"]

\* deleteRequest(schema): the statements of the one transaction
DeleteRequest(rev, schema) ==
    <<DropTableQ("data"), MetaDeleteQ("T")>>
    \o (IF rev = "dropTable" /\ DOMAIN schema.secondaryIndexes # {}
        THEN [i \in 1..Cardinality(DOMAIN schema.secondaryIndexes) |->
                    DropIndexStrictQ(SetToSeq(DOMAIN schema.secondaryIndexes)[i])]
                \o <<DropTableQ("secondaryIndex")>>
        ELSE <<>>)
    \o (IF StaticTableExist(schema) THEN <<DropTableQ("static")>> ELSE <<>>)

\* the revision of every dropTable of one process is the same
DropRevOfProcess ==
    IF \E t \in TaskIds : tasks[t].kind = "dropTable"
    THEN {tasks[CHOOSE t \in TaskIds : tasks[t].kind = "dropTable"].rev}
    ELSE DropRevs

\* dropTable up to the first suspension: with a cached schema the cache entry
\* is deleted and the transaction started, without one the schema is looked up
DropCall(rev) ==
    /\  LET t == Len(tasks) + 1
            task == NewDropTask(rev, db.meta = <<>> /\ db.tables = NoTables)
        IN IF schemaCache["T"] # NoSchema
           THEN /\ tasks' = Append(tasks, [task EXCEPT !.pc = "run", !.run = Len(runs) + 1])
                /\ schemaCache' = [schemaCache EXCEPT !["T"] = NoSchema]
                /\ StartRun(t, TRUE, DeleteRequest(rev, schemaCache["T"]))
                /\ UNCHANGED <<reads, queryCache, compiled>>
           ELSE /\ tasks' = Append(tasks, [task EXCEPT !.read = Len(reads) + 1])
                /\ reads' = Append(reads, NewRead(t, MetaQ("T")))
                /\ queryCache' = queryCache \cup {CacheKey("global_schema", "table")}
                /\ compiled' = Prepared(CacheKey("global_schema", "table"), infoSchemaInfo)
                /\ UNCHANGED <<pool, runs, schemaCache>>
    /\ UNCHANGED <<conf, wrapperRev, conn, db, faults, now>>

CallDropTable ==
    /\ Len(tasks) < NDrops
    /\ \E rev \in DropRevOfProcess : DropCall(rev)

\* dropTable in the race specification
CallDropTableLater ==
    /\ Len(tasks) < NLifecycle
    /\ \E rev \in DropRevOfProcess : DropCall(rev)

\* the schema lookup of dropTable has settled
DropGotSchema(t) ==
    /\ t \in 1..Len(tasks)
    /\ tasks[t].kind = "dropTable" /\ tasks[t].pc = "getSchema"
    /\ reads[tasks[t].read].pc = "done"
    /\ LET rd == reads[tasks[t].read]
           found == rd.rows # <<>>
       IN IF rd.result # NoErr
          THEN /\ tasks' = Answer(t, 500, "delete_error")
               /\ UNCHANGED <<pool, runs>>
          ELSE IF tasks[t].rev = "dropTable"
          THEN \* .then((schema) => deleteRequest(schema)): Object.keys of
               \* null.secondaryIndexes throws when there is no schema
               IF ~found
               THEN /\ tasks' = Answer(t, 500, "delete_error")
                    /\ UNCHANGED <<pool, runs>>
               ELSE /\ tasks' = [tasks EXCEPT ![t].pc = "run", ![t].run = Len(runs) + 1]
                    /\ StartRun(t, TRUE, DeleteRequest("dropTable",
                                                       MakeSchemaInfo(rd.rows[1].value)))
          ELSE \* if (!schema) { return; } deleteRequest(schema); with nothing
               \* returned: the transaction is started and not awaited
               IF ~found
               THEN /\ tasks' = Answer(t, 204, "none")
                    /\ UNCHANGED <<pool, runs>>
               ELSE /\ tasks' = [Answer(t, 204, "none") EXCEPT ![t].run = Len(runs) + 1]
                    /\ StartRun(t, TRUE, DeleteRequest("_dropTable",
                                                       MakeSchemaInfo(rd.rows[1].value)))
    /\ UNCHANGED <<conf, wrapperRev, conn, db, reads, faults, now, schemaCache, queryCache, compiled>>

\* the awaited transaction of dropTable has settled
DropDone(t) ==
    /\ t \in 1..Len(tasks)
    /\ tasks[t].kind = "dropTable" /\ tasks[t].pc = "run"
    /\ runs[tasks[t].run].settled
    /\ tasks' = IF runs[tasks[t].run].result # NoErr
                THEN Answer(t, 500, "delete_error")
                ELSE Answer(t, 204, "none")
    /\ UNCHANGED <<conf, wrapperRev, pool, conn, db, runs, reads, faults,
                   now, schemaCache, queryCache, compiled>>

(***************************************************************************)
(* DB.get / DB._get on table T and RBSQLite.get, which answers 200 with    *)
(* the items, 404 when there are none, and 500 when DB.get rejects.        *)
(***************************************************************************)
GetKeys == {1}
\* a get with an equality predicate on the hash key, or without attributes;
\* valid: whether validateGetRequest accepts the request; withTTL: req.withTTL
GetRequests == [attrs : {"key", "none"}, key : GetKeys, valid : BOOLEAN,
                withTTL : BOOLEAN]

NewGetTask(req) ==
    [kind |-> "get", req |-> req, pc |-> "getSchema", read |-> 0, readTime |-> 0,
     absent |-> db.meta = <<>> /\ db.tables = NoTables,
     miss |-> schemaCache["T"] = NoSchema,    \* the branch of DB.get
     items |-> <<>>, body |-> <<>>, status |-> 0, bodyType |-> "none"]

\* the options DB.get passes to _get: withTTL only when the schema was cached
GetOptions(task) ==
    [includePreparedForDelete |-> TRUE,
     withTTL |-> IF task.miss THEN FALSE ELSE task.req.withTTL]

\* convertRow of _get at time t: _ttl is added under options.withTTL as
\* Math.floor((row._exist_until - t) / 1000), a null _exist_until counting as
\* 0, and _exist_until is deleted; _ttl is <<>> when the item has none
ConvertRow(row, options, t) ==
    [key |-> row.key, tid |-> row.tid, val |-> row.val,
     ttl |-> IF options.withTTL THEN <<(row.eu - t) \div 1000>> ELSE <<>>]
ConvertRows(rows, options, t) ==
    [i \in 1..Len(rows) |-> ConvertRow(rows[i], options, t)]

\* _createGetQuery: extractGetParams pushes the time of the gate, buildGetQuery
\* adds the where clause only when the request has attributes
PublicGetQuery(req, t) ==
    IF req.attrs = "key" THEN GetQ(req.key, 0, TRUE, t) ELSE ScanQ(t)
PublicGetShape(req) == IF req.attrs = "key" THEN "key, gated" ELSE "scan"

\* _get of task t of ts up to client.all: the validator, then the statement;
\* without a schema-info the builders dereference null
GetStart(ts, t, schema) ==
    IF ~ts[t].req.valid \/ schema = NoSchema
    THEN /\ tasks' = [ts EXCEPT ![t].status = 500, ![t].bodyType = "query_error",
                                ![t].pc = "finished"]
         /\ UNCHANGED <<reads, queryCache, compiled>>
    ELSE /\ tasks' = [ts EXCEPT ![t].pc = "read", ![t].read = Len(reads) + 1,
                                ![t].readTime = now]
         /\ reads' = Append(reads, NewRead(t, PublicGetQuery(ts[t].req, now)))
         /\ queryCache' = queryCache \cup {CacheKey("T", PublicGetShape(ts[t].req))}
         /\ compiled' = Prepared(CacheKey("T", PublicGetShape(ts[t].req)), schema)

\* DB.get of one request up to the first suspension
GetCall(req) ==
    /\ LET t == Len(tasks) + 1
           task == NewGetTask(req)
       IN IF schemaCache["T"] # NoSchema
          THEN GetStart(Append(tasks, task), t, schemaCache["T"])
          ELSE /\ tasks' = Append(tasks, [task EXCEPT !.read = Len(reads) + 1])
               /\ reads' = Append(reads, NewRead(t, MetaQ("T")))
               /\ queryCache' = queryCache \cup {CacheKey("global_schema", "table")}
               /\ compiled' = Prepared(CacheKey("global_schema", "table"), infoSchemaInfo)
    /\ UNCHANGED <<conf, wrapperRev, pool, conn, db, runs, faults, now, schemaCache>>

CallGet ==
    /\ Len(tasks) < NRequests
    /\ \E req \in GetRequests : GetCall(req)

\* a get without withTTL that the validator accepts, as one of the requests
\* of a lifecycle
CallGetLater ==
    /\ Len(tasks) < NLifecycle
    /\ \E req \in {r \in GetRequests : r.valid /\ ~r.withTTL} : GetCall(req)

\* the schema lookup of get has settled: the schema (or null) is cached and
\* _get is called with it
GetGotSchema(t) ==
    /\ t \in 1..Len(tasks)
    /\ tasks[t].kind = "get" /\ tasks[t].pc = "getSchema"
    /\ reads[tasks[t].read].pc = "done"
    /\ LET rd == reads[tasks[t].read]
           schema == IF rd.rows = <<>> THEN NoSchema ELSE MakeSchemaInfo(rd.rows[1].value)
       IN IF rd.result # NoErr
          THEN /\ tasks' = Answer(t, 500, "query_error")
               /\ UNCHANGED <<reads, schemaCache, queryCache, compiled>>
          ELSE /\ schemaCache' = [schemaCache EXCEPT !["T"] = schema]
               /\ GetStart(tasks, t, schema)
    /\ UNCHANGED <<conf, wrapperRev, pool, conn, db, runs, faults, now>>

\* client.all of _get has settled: SQLITE_ERROR is turned into no items
GetDone(t) ==
    /\ t \in 1..Len(tasks)
    /\ tasks[t].kind = "get" /\ tasks[t].pc = "read"
    /\ reads[tasks[t].read].pc = "done"
    /\ LET rd == reads[tasks[t].read]
       IN tasks' =
            IF rd.result = NoErr
            THEN [Answer(t, IF rd.rows # <<>> THEN 200 ELSE 404, "none")
                    EXCEPT ![t].items = rd.rows,
                           ![t].body = ConvertRows(rd.rows, GetOptions(tasks[t]), now)]
            ELSE IF rd.result.code = "SQLITE_ERROR"
            THEN Answer(t, 404, "none")
            ELSE Answer(t, 500, "query_error")
    /\ UNCHANGED <<conf, wrapperRev, pool, conn, db, runs, reads, faults,
                   now, schemaCache, queryCache, compiled>>

(***************************************************************************)
(* DB.getTableSchema and RBSQLite.getTableSchema, which answers 200 when   *)
(* it resolves and 500 when it rejects.                                    *)
(***************************************************************************)
NewSchemaTask(read) ==
    [kind |-> "getTableSchema", pc |-> "read", read |-> read,
     status |-> 0, bodyType |-> "none", thrown |-> 0]

CallGetTableSchema ==
    /\ Len(tasks) < NRequests
    /\ tasks' = Append(tasks, NewSchemaTask(Len(reads) + 1))
    /\ reads' = Append(reads, NewRead(Len(tasks) + 1, MetaQ("T")))
    /\ queryCache' = queryCache \cup {CacheKey("global_schema", "table")}
    /\ compiled' = Prepared(CacheKey("global_schema", "table"), infoSchemaInfo)
    /\ UNCHANGED <<conf, wrapperRev, pool, conn, db, runs, faults, now, schemaCache>>

\* the read has settled: without items DB.getTableSchema throws an HTTPError
\* of status 404, which the catch of RBSQLite.getTableSchema answers like
\* any other error; thrown is the status of the error that was caught
SchemaGot(t) ==
    /\ t \in 1..Len(tasks)
    /\ tasks[t].kind = "getTableSchema" /\ tasks[t].pc = "read"
    /\ reads[tasks[t].read].pc = "done"
    /\ LET rd == reads[tasks[t].read]
       IN tasks' =
            IF rd.result # NoErr THEN Answer(t, 500, "schema_query_error")
            ELSE IF rd.rows # <<>> THEN Answer(t, 200, "none")
            ELSE [Answer(t, 500, "schema_query_error") EXCEPT ![t].thrown = 404]
    /\ UNCHANGED <<conf, wrapperRev, pool, conn, db, runs, reads, faults,
                   now, schemaCache, queryCache, compiled>>

(***************************************************************************)
(* DB.put of a request that validatePutRequest refuses: _put throws before *)
(* it builds a statement, and RBSQLite.put answers 500 to every rejection. *)
(***************************************************************************)
NewRejectedPutTask(read) ==
    [kind |-> "put", valid |-> FALSE, pc |-> "getSchema", read |-> read, run |-> 0,
     status |-> 0, bodyType |-> "none"]

CallRejectedPut ==
    /\ Len(tasks) < NRequests
    /\ LET t == Len(tasks) + 1
       IN IF schemaCache["T"] # NoSchema
          THEN \* P.try(() => this._put(tableName, req))
               /\ tasks' = Append(tasks, [NewRejectedPutTask(0) EXCEPT
                                            !.status = 500, !.bodyType = "update_error",
                                            !.pc = "finished"])
               /\ UNCHANGED <<reads, queryCache, compiled>>
          ELSE /\ tasks' = Append(tasks, NewRejectedPutTask(Len(reads) + 1))
               /\ reads' = Append(reads, NewRead(t, MetaQ("T")))
               /\ queryCache' = queryCache \cup {CacheKey("global_schema", "table")}
               /\ compiled' = Prepared(CacheKey("global_schema", "table"), infoSchemaInfo)
    /\ UNCHANGED <<conf, wrapperRev, pool, conn, db, runs, faults, now, schemaCache>>

\* the schema lookup of put has settled: the schema (or null) is cached and
\* _put throws
RejectedPutGotSchema(t) ==
    /\ t \in 1..Len(tasks)
    /\ tasks[t].kind = "put" /\ tasks[t].pc = "getSchema"
    /\ reads[tasks[t].read].pc = "done"
    /\ LET rd == reads[tasks[t].read]
       IN /\ tasks' = Answer(t, 500, "update_error")
          /\ schemaCache' =
                IF rd.result # NoErr THEN schemaCache
                ELSE [schemaCache EXCEPT !["T"] =
                        IF rd.rows = <<>> THEN NoSchema
                        ELSE MakeSchemaInfo(rd.rows[1].value)]
    /\ UNCHANGED <<conf, wrapperRev, pool, conn, db, runs, reads, faults, now, queryCache, compiled>>

(***************************************************************************)
(* The put specification: put requests on T under each retention policy,   *)
(* starting from a table that is empty, holds live rows, or holds a row    *)
(* whose _ttl has run out and that no purge has removed yet.               *)
(***************************************************************************)
InitTables ==
    {{},
     {Row(1, 2000, 0, Null), Row(2, 2000, 0, Null), Row(2, 1000, 0, Null)},
     {Row(1, 1000, 0, 1000)}}

InitPut ==
    /\ conf = [retry_limit |-> 1]
    /\ wrapperRev = "finallyThrow"
    /\ faults = MaxFaults
    /\ InitWrapper
    /\ \E rows \in InitTables : db = StoredTable(BaseSchema, rows)
    /\ now = StartTime
    /\ \E type \in PolicyTypes :
            schemaCache = [n \in TableNames |-> MakeSchemaInfo(PutSchema(Policy(type)))]
    /\ queryCache = {}
    /\ compiled = PreparedFrom({}, NoSchema)
    /\ tasks = <<>>

NextPut ==
    \/ CallPut
    \/ Tick
    \/ \E r \in 1..Len(runs) : Begin(r)
    \/ \E r \in 1..Len(runs) : Exec(r)
    \/ \E r \in 1..Len(runs) : Rollback(r)
    \/ \E r \in 1..Len(runs) : Commit(r)
    \/ \E q \in 1..Len(reads) : All(q)
    \/ \E t \in 1..Len(tasks) : PutAfterRun(t)
    \/ \E t \in 1..Len(tasks) : OlderGot(t)
    \/ \E t \in 1..Len(tasks) : OlderDeleted(t)
    \/ \E t \in 1..Len(tasks) : RetGot(t)

SpecPut == InitPut /\ [][NextPut]_vars

(***************************************************************************)
(* The table lifecycle specification: createTable requests on T, starting  *)
(* without the table or with a table created from one of two schemas, by   *)
(* this process (caches warm) or by an earlier one (caches empty).         *)
(***************************************************************************)
InitMig ==
    /\ conf = [retry_limit |-> 1]
    /\ wrapperRev = "finallyThrow"
    /\ faults = MaxFaults
    /\ InitWrapper
    /\ now = StartTime
    /\ tasks = <<>>
    /\ \/ /\ db = EmptyDb
          /\ schemaCache = [n \in TableNames |-> NoSchema]
          /\ queryCache = {}
          /\ compiled = PreparedFrom({}, NoSchema)
       \/ \E schema \in {BaseSchema, RichSchema} :
            /\ db = StoredTable(schema, {})
            /\ \/ /\ schemaCache = [n \in TableNames |-> MakeSchemaInfo(schema)]
                  /\ queryCache = {CacheKey("global_schema", "table"), CacheKey("T", "key")}
                  /\ compiled = PreparedFrom({CacheKey("global_schema", "table"), CacheKey("T", "key")}, MakeSchemaInfo(schema))
               \/ /\ schemaCache = [n \in TableNames |-> NoSchema]
                  /\ queryCache = {}
                  /\ compiled = PreparedFrom({}, NoSchema)

NextMig ==
    \/ CallCreateTable
    \/ \E r \in 1..Len(runs) : Begin(r)
    \/ \E r \in 1..Len(runs) : Exec(r)
    \/ \E r \in 1..Len(runs) : Rollback(r)
    \/ \E r \in 1..Len(runs) : Commit(r)
    \/ \E q \in 1..Len(reads) : All(q)
    \/ \E t \in 1..Len(tasks) : CreateGotSchema(t)
    \/ \E t \in 1..Len(tasks) : CreateColumnAdded(t)
    \/ \E t \in 1..Len(tasks) : CreateTableDone(t)
    \/ \E t \in 1..Len(tasks) : CreateMetaPut(t)

SpecMig == InitMig /\ [][NextMig]_vars

(***************************************************************************)
(* The drop specification: dropTable requests on T, starting as the table  *)
(* lifecycle specification does.                                           *)
(***************************************************************************)
NextDrop ==
    \/ CallDropTable
    \/ \E r \in 1..Len(runs) : Begin(r)
    \/ \E r \in 1..Len(runs) : Exec(r)
    \/ \E r \in 1..Len(runs) : Rollback(r)
    \/ \E r \in 1..Len(runs) : Commit(r)
    \/ \E q \in 1..Len(reads) : All(q)
    \/ \E t \in 1..Len(tasks) : DropGotSchema(t)
    \/ \E t \in 1..Len(tasks) : DropDone(t)

SpecDrop == InitMig /\ [][NextDrop]_vars

(***************************************************************************)
(* The read specification: get, getTableSchema and refused put requests on *)
(* T while the clock advances, starting without the table or with a table  *)
(* that holds a live row, a row whose _exist_until has passed and a row     *)
(* whose _exist_until is still ahead.                                      *)
(***************************************************************************)
InitReadRows == {Row(1, 3000, 0, Null), Row(1, 1000, 0, 1000), Row(1, 2000, 0, 2500)}

InitRead ==
    /\ conf = [retry_limit |-> 1]
    /\ wrapperRev = "finallyThrow"
    /\ faults = MaxFaults
    /\ InitWrapper
    /\ now = StartTime
    /\ tasks = <<>>
    /\ \/ /\ db = EmptyDb
          /\ schemaCache = [n \in TableNames |-> NoSchema]
          /\ queryCache = {}
          /\ compiled = PreparedFrom({}, NoSchema)
       \/ /\ db = StoredTable(BaseSchema, InitReadRows)
          /\ \/ /\ schemaCache = [n \in TableNames |-> MakeSchemaInfo(BaseSchema)]
                /\ queryCache = {CacheKey("global_schema", "table")}
                /\ compiled = PreparedFrom({CacheKey("global_schema", "table")}, NoSchema)
             \/ /\ schemaCache = [n \in TableNames |-> NoSchema]
                /\ queryCache = {}
                /\ compiled = PreparedFrom({}, NoSchema)

NextRead ==
    \/ CallGet
    \/ CallGetTableSchema
    \/ CallRejectedPut
    \/ Tick
    \/ \E q \in 1..Len(reads) : All(q)
    \/ \E t \in 1..Len(tasks) : GetGotSchema(t)
    \/ \E t \in 1..Len(tasks) : GetDone(t)
    \/ \E t \in 1..Len(tasks) : SchemaGot(t)
    \/ \E t \in 1..Len(tasks) : RejectedPutGotSchema(t)

SpecRead == InitRead /\ [][NextRead]_vars

(***************************************************************************)
(* The cache specification: createTable, dropTable and get requests on T   *)
(* in any order and overlapping, starting with a stored table and either   *)
(* empty caches or the caches that earlier gets on T, on T2 and on U have  *)
(* left.                                                                   *)
(***************************************************************************)
OtherTables == {"T2", "U"}

WarmCache ==
    {CacheKey("global_schema", "table")}
        \cup {CacheKey(n, "key, gated") : n \in {"T"} \cup OtherTables}

InitCache ==
    /\ conf = [retry_limit |-> 1]
    /\ wrapperRev = "finallyThrow"
    /\ faults = MaxFaults
    /\ InitWrapper
    /\ now = StartTime
    /\ tasks = <<>>
    /\ \E schema \in {BaseSchema, RichSchema} :
        /\ db = StoredTable(schema, {})
        /\ \/ /\ schemaCache = [n \in TableNames |-> MakeSchemaInfo(schema)]
              /\ queryCache = WarmCache
              /\ compiled = [k \in WarmCache |->
                                IF k.table = "global_schema" THEN infoSchemaInfo
                                ELSE MakeSchemaInfo([schema EXCEPT !.table = k.table])]
           \/ /\ schemaCache = [n \in TableNames |-> NoSchema]
              /\ queryCache = {}
              /\ compiled = PreparedFrom({}, NoSchema)

NextCache ==
    \/ CallCreateTable
    \/ CallDropTable
    \/ CallGet
    \/ \E r \in 1..Len(runs) : Begin(r)
    \/ \E r \in 1..Len(runs) : Exec(r)
    \/ \E r \in 1..Len(runs) : Rollback(r)
    \/ \E r \in 1..Len(runs) : Commit(r)
    \/ \E q \in 1..Len(reads) : All(q)
    \/ \E t \in 1..Len(tasks) : CreateGotSchema(t)
    \/ \E t \in 1..Len(tasks) : CreateColumnAdded(t)
    \/ \E t \in 1..Len(tasks) : CreateTableDone(t)
    \/ \E t \in 1..Len(tasks) : CreateMetaPut(t)
    \/ \E t \in 1..Len(tasks) : DropGotSchema(t)
    \/ \E t \in 1..Len(tasks) : DropDone(t)
    \/ \E t \in 1..Len(tasks) : GetGotSchema(t)
    \/ \E t \in 1..Len(tasks) : GetDone(t)

SpecCache == InitCache /\ [][NextCache]_vars

(***************************************************************************)
(* The lifecycle specification: up to NLifecycle requests on T, the first  *)
(* two of any kind and the later ones gets, against an engine that fails   *)
(* no statement by itself, starting as the cache specification does.       *)
(***************************************************************************)
InitLifecycle ==
    /\ conf = [retry_limit |-> 1]
    /\ wrapperRev = "finallyThrow"
    /\ faults = 0
    /\ InitWrapper
    /\ now = StartTime
    /\ tasks = <<>>
    /\ \E schema \in {BaseSchema, RichSchema} :
        /\ db = StoredTable(schema, {})
        /\ \/ /\ schemaCache = [n \in TableNames |-> MakeSchemaInfo(schema)]
              /\ queryCache = WarmCache
              /\ compiled = [k \in WarmCache |->
                                IF k.table = "global_schema" THEN infoSchemaInfo
                                ELSE MakeSchemaInfo([schema EXCEPT !.table = k.table])]
           \/ /\ schemaCache = [n \in TableNames |-> NoSchema]
              /\ queryCache = {}
              /\ compiled = PreparedFrom({}, NoSchema)

NextLifecycle ==
    \/ CallCreateTable
    \/ CallDropTable
    \/ CallGetLater
    \/ \E r \in 1..Len(runs) : Begin(r)
    \/ \E r \in 1..Len(runs) : Exec(r)
    \/ \E r \in 1..Len(runs) : Rollback(r)
    \/ \E r \in 1..Len(runs) : Commit(r)
    \/ \E q \in 1..Len(reads) : All(q)
    \/ \E t \in 1..Len(tasks) : CreateGotSchema(t)
    \/ \E t \in 1..Len(tasks) : CreateColumnAdded(t)
    \/ \E t \in 1..Len(tasks) : CreateTableDone(t)
    \/ \E t \in 1..Len(tasks) : CreateMetaPut(t)
    \/ \E t \in 1..Len(tasks) : DropGotSchema(t)
    \/ \E t \in 1..Len(tasks) : DropDone(t)
    \/ \E t \in 1..Len(tasks) : GetGotSchema(t)
    \/ \E t \in 1..Len(tasks) : GetDone(t)

SpecLifecycle == InitLifecycle /\ [][NextLifecycle]_vars

(***************************************************************************)
(* The put with `if` on a table that has a static column and a secondary   *)
(* index: [T_data] rows (key, tid, val), [T_static] rows (key, extra) and  *)
(* [T_secondaryIndex] rows (key, val).                                     *)
(***************************************************************************)
SideSchema(policy) == [RichSchema EXCEPT !.revisionRetentionPolicy = policy]

\* req.if: absent, the string 'not exists', or a predicate {val: v}
NoIf == [kind |-> "none", val |-> Null]
IfNotExists == [kind |-> "not exists", val |-> Null]
IfVal(v) == [kind |-> "pred", val |-> v]

\* the t-th request writes the value t and, when it supplies the static
\* attribute, the static value 10 + t
PutIfRequests(t) ==
    {[key |-> 1, tid |-> tid, val |-> t, ttl |-> 0, extra |-> x, cond |-> c] :
        tid \in PutTids, x \in {Unset, 10 + t},
        c \in {NoIf, IfNotExists, IfVal(5), IfVal(9)}}

PutIfAttributes(req) ==
    [key |-> req.key, tid |-> PutAttributes(req).tid, val |-> req.val,
     eu |-> PutAttributes(req).eu, extra |-> req.extra, cond |-> req.cond]

\* dbu.buildPutQuery: the data statements chosen by req.if, then the replace
\* of the static row when a static attribute was supplied
BuildPutQueryIf(attrs, t, ignoreStatic) ==
    (IF attrs.cond.kind = "pred"
     THEN <<UpdateIfQ(attrs.key, attrs.tid, attrs.val, attrs.eu, t, attrs.cond.val)>>
     ELSE IF attrs.cond.kind = "not exists"
     THEN <<InsertQ(attrs.key, attrs.tid, attrs.val, attrs.eu)>>
     ELSE BuildPutQuery(attrs, t))
    \o (IF attrs.extra # Unset /\ ~ignoreStatic
        THEN <<ReplaceStaticQ(attrs.key, attrs.extra)>> ELSE <<>>)

\* dbu.buildSecondaryIndexUpdateQuery
BuildSecondaryIndexUpdateQuery(attrs, schema) ==
    IF DOMAIN schema.secondaryIndexes = {} THEN <<>>
    ELSE <<ReplaceIndexQ(attrs.key, attrs.val)>>

\* _put of a request that may carry `if` and the static attribute
CallPutIf ==
    /\ Len(tasks) < NPutIfs
    /\ schemaCache["T"] # NoSchema
    /\ \E req \in PutIfRequests(Len(tasks) + 1) :
        LET attrs == PutIfAttributes(req)
        IN /\ tasks' = Append(tasks, NewPutTask(attrs, Len(runs) + 1, Unanswered))
           /\ StartRun(Len(tasks) + 1, TRUE,
                       BuildPutQueryIf(attrs, now, FALSE)
                         \o BuildSecondaryIndexUpdateQuery(attrs, schemaCache["T"]))
    /\ UNCHANGED <<conf, wrapperRev, conn, db, reads, faults,
                   now, schemaCache, queryCache, compiled>>

\* the table after createTable and the puts that wrote the given rows
StoredSide(policy, rows) ==
    [StoredTable(SideSchema(policy), rows) EXCEPT
        !.statics = {[key |-> row.key, extra |-> 7] : row \in rows},
        !.index = {[key |-> row.key, val |-> row.val] : row \in rows}]

InitSide ==
    /\ conf = [retry_limit |-> 1]
    /\ wrapperRev = "finallyThrow"
    /\ faults = MaxFaults
    /\ InitWrapper
    /\ now = StartTime
    /\ \E type \in {"all", "latest_hash"} :
         /\ schemaCache = [n \in TableNames |-> MakeSchemaInfo(SideSchema(Policy(type)))]
         /\ \E rows \in {{}, {Row(1, 1000, 5, Null)}} :
                db = StoredSide(Policy(type), rows)
    /\ queryCache = {}
    /\ compiled = PreparedFrom({}, NoSchema)
    /\ tasks = <<>>

NextSide ==
    \/ CallPutIf
    \/ \E r \in 1..Len(runs) : Begin(r)
    \/ \E r \in 1..Len(runs) : Exec(r)
    \/ \E r \in 1..Len(runs) : Rollback(r)
    \/ \E r \in 1..Len(runs) : Commit(r)
    \/ \E q \in 1..Len(reads) : All(q)
    \/ \E t \in 1..Len(tasks) : PutAfterRun(t)
    \/ \E t \in 1..Len(tasks) : OlderGot(t)
    \/ \E t \in 1..Len(tasks) : OlderDeleted(t)

SpecSide == InitSide /\ [][NextSide]_vars

(***************************************************************************)
(* The race specification: up to NLifecycle createTable and dropTable      *)
(* requests for a table that does not exist at the start, no engine        *)
(* failure.                                                                *)
(***************************************************************************)
InitRace ==
    /\ conf = [retry_limit |-> 1]
    /\ wrapperRev = "finallyThrow"
    /\ faults = 0
    /\ InitWrapper
    /\ InitIdleStore

NextRace ==
    \/ CallCreateTableLater
    \/ CallDropTableLater
    \/ \E r \in 1..Len(runs) : Begin(r)
    \/ \E r \in 1..Len(runs) : Exec(r)
    \/ \E r \in 1..Len(runs) : Rollback(r)
    \/ \E r \in 1..Len(runs) : Commit(r)
    \/ \E q \in 1..Len(reads) : All(q)
    \/ \E t \in 1..Len(tasks) : CreateGotSchema(t)
    \/ \E t \in 1..Len(tasks) : CreateTableDone(t)
    \/ \E t \in 1..Len(tasks) : CreateMetaPut(t)
    \/ \E t \in 1..Len(tasks) : DropGotSchema(t)
    \/ \E t \in 1..Len(tasks) : DropDone(t)

SpecRace == InitRace /\ [][NextRace]_vars

(***************************************************************************)
(* Claims about the client wrapper.                                        *)
(***************************************************************************)
RunIds == 1..Len(runs)
ReadIds == 1..Len(reads)

\* the statements of run r as the engine logs them: <<run, position after filtering>>
RunStatements(r) ==
    IF runs[r].isArray
    THEN {<<r, i>> : i \in 1..Len(FilterQueries(runs[r].queries))}
    ELSE {}

CommittedOf(r) == {m \in db.marks : m[1] = r}

\* C1: every run() call is atomic: in the committed database, which is what
\* any reader observes, either all of its filtered statements are applied or
\* none is, and they are applied only by a COMMIT the call issued.
C1_RunAtomic ==
    \A r \in RunIds :
        /\ CommittedOf(r) \in {{}, RunStatements(r)}
        /\ CommittedOf(r) # {} => runs[r].commitIssued /\ runs[r].result = NoErr

\* one call committed two statements; another executed its first statement,
\* failed at the second and was rolled back
C1_Witness ==
    \E r1, r2 \in RunIds :
        /\ Cardinality(CommittedOf(r1)) = 2
        /\ runs[r2].settled /\ runs[r2].stmtErr # NoErr /\ runs[r2].idx = 2
        /\ runs[r2].rollbackIssued /\ CommittedOf(r2) = {}

ActivePcs == {"begin", "exec", "rollback", "commit"}
QueuedRuns == {pool.queue[i] : i \in 1..Len(pool.queue)}

\* C2: at most one run() call holds the writer connection: a call between its
\* BEGIN IMMEDIATE and its COMMIT or ROLLBACK is the pool's holder, no other
\* call is in that span, and the calls that found the connection taken wait in
\* the pool queue.
C2_SingleWriter ==
    /\ \A r \in RunIds : runs[r].pc \in ActivePcs => pool.holder = r
    /\ Cardinality({r \in RunIds : runs[r].pc \in ActivePcs}) <= PoolMax
    /\ \A r \in RunIds : runs[r].pc = "waiting" <=> r \in QueuedRuns

\* one call is executing its statements while another waits in the queue
C2_Witness ==
    \E r1, r2 \in RunIds :
        /\ runs[r1].pc = "exec" /\ runs[r1].idx = 2
        /\ runs[r2].pc = "waiting" /\ pool.queue = <<r2>>

\* C3: every run() call that acquired the writer connection has released it
\* once it has settled, whatever the exit path.
C3_ReleasedOnEveryExit ==
    \A r \in RunIds :
        runs[r].settled /\ runs[r].acquired => runs[r].released = 1 /\ pool.holder # r

\* C4: a call whose statement failed after BEGIN IMMEDIATE succeeded has issued
\* ROLLBACK, never COMMIT, has released the connection, and settles with the
\* error of the failed statement.
C4_StatementFailure ==
    \A r \in RunIds :
        runs[r].settled /\ runs[r].stmtErr # NoErr =>
            /\ runs[r].rollbackIssued
            /\ ~runs[r].commitIssued
            /\ runs[r].released = 1
            /\ runs[r].result = runs[r].stmtErr

PutIds == {t \in TaskIds : tasks[t].kind = "put"}
PolicyOfT == schemaCache["T"].revisionRetentionPolicy

\* the rows of a key group that have _exist_until NULL
LiveRows(key) == {row \in db.rows : row.key = key /\ row.eu = Null}

\* the put's data transaction committed
PutCommitted(t) == runs[tasks[t].run].commitSeq > 0

\* the put whose data transaction committed last
IsLastCommittedPut(t) ==
    /\ PutCommitted(t)
    /\ \A u \in PutIds : runs[tasks[u].run].commitSeq <= runs[tasks[t].run].commitSeq

\* the retention pass that the put started has completed without an error
PassSucceeded(t) ==
    \/ tasks[t].pass = "clean"
    \/ /\ tasks[t].pass = "writing"
       /\ runs[tasks[t].retRun].settled
       /\ runs[tasks[t].retRun].result = NoErr

C7_RetentionFailureNeverFailsPut ==
    \A t \in PutIds :
        PutCommitted(t) /\ tasks[t].status # 0 => tasks[t].status = 201

\* no request, transaction, read or retention pass is in progress
Quiescent ==
    /\ \A r \in RunIds : runs[r].settled
    /\ \A q \in ReadIds : reads[q].pc = "done"
    /\ \A t \in TaskIds : tasks[t].pc \in {"finished", "retRun"}

\* C8: of two overlapping puts to the same primary key whose transactions
\* both committed, both are answered 201 and, once everything has come to
\* rest, the stored row with that key holds the value of the put that
\* committed later.
C8_OverlappingPuts ==
    \A t1, t2 \in PutIds :
        /\ t1 \in tasks[t2].inFlight
        /\ tasks[t1].attrs.key = tasks[t2].attrs.key
        /\ tasks[t1].attrs.tid = tasks[t2].attrs.tid
        /\ PutCommitted(t1) /\ PutCommitted(t2)
        /\ Quiescent
        => /\ tasks[t1].status = 201 /\ tasks[t2].status = 201
           /\ LET later == IF runs[tasks[t1].run].commitSeq > runs[tasks[t2].run].commitSeq
                           THEN t1 ELSE t2
              IN \A row \in db.rows :
                    SamePk(row, tasks[later].attrs) => row.val = tasks[later].attrs.val

(***************************************************************************)
(* Claims about createTable and the schema migrator.                       *)
(***************************************************************************)
CreateIds == {t \in TaskIds : tasks[t].kind = "createTable"}
ProposedInfo(t) == MakeSchemaInfo(tasks[t].proposed)

\* the request found a stored schema whose hash differs from the proposed one
IsMigration(t) ==
    /\ tasks[t].current # NoSchema
    /\ SchemaHash(tasks[t].current) # SchemaHash(ProposedInfo(t))

Axes == {"table", "attributes", "index", "secondaryIndexes", "version"}
OwnsNoRun(t) == \A r \in RunIds : runs[r].owner # t

\* a migration request is either validated on every axis and then migrated,
\* or answered 400 without having started any transaction
C9_ValidatedOrThrown ==
    \A t \in CreateIds :
        IsMigration(t) =>
            IF \A axis \in Axes : AxisValid(axis, tasks[t].current, ProposedInfo(t))
            THEN tasks[t].status # 400
            ELSE tasks[t].status = 400 /\ OwnsNoRun(t)

\* the step in which the migrator throws changes neither the database, nor
\* the schema cache, nor the statement cache, and starts no transaction
C9_ThrowStep ==
    \A t \in CreateIds :
        tasks[t].status = 0 /\ tasks'[t].status = 400 =>
            UNCHANGED <<db, conn, pool, runs, reads, schemaCache, queryCache>>

\* C9: when createTable finds a stored schema with a different hash, the
\* migrator either validates every axis of the diff or throws during its
\* construction; when it throws, no DDL statement has been issued and the
\* physical tables, the meta row, the schema cache and the statement cache
\* are unchanged.
C9_MigratorValidatesOrThrows == [](C9_ValidatedOrThrown) /\ [][C9_ThrowStep]_vars

\* a request was refused by the migrator while the physical tables, the meta
\* row, the cached schema and a cached statement of the table were there
C9_Witness ==
    \E t \in CreateIds :
        /\ IsMigration(t) /\ tasks[t].status = 400 /\ OwnsNoRun(t)
        /\ \E axis \in Axes : ~AxisValid(axis, tasks[t].current, ProposedInfo(t))
        /\ db.tables.data # {} /\ db.meta # <<>>
        /\ schemaCache["T"] # NoSchema
        /\ CacheKey("T", "key") \in queryCache

\* the proposed index adds or removes a hash or range element, or gives a
\* column that existed a different index type
KeyIndexChange(current, proposed) ==
    \E a \in DOMAIN current.attributes \cup DOMAIN proposed.attributes :
        LET c == IndexTypeOf(current, a)
            p == IndexTypeOf(proposed, a)
        IN \/ p \in {"hash", "range"} /\ c = "none"
           \/ c \in {"hash", "range"} /\ p = "none"
           \/ a \in DOMAIN current.attributes /\ c # "none" /\ p # "none" /\ c # p

\* C10: createTable on an existing table whose proposed schema adds or
\* removes a hash or range index element, or changes the index type of an
\* existing column, is answered with status 400 and body.type bad_request.
C10_KeyIndexChangeRefused ==
    \A t \in CreateIds :
        /\ tasks[t].status # 0
        /\ tasks[t].current # NoSchema
        /\ KeyIndexChange(tasks[t].current, ProposedInfo(t))
        => tasks[t].status = 400 /\ tasks[t].bodyType = "bad_request"

\* a request that only adds a range key on a new column, with a higher
\* version, was answered 400 bad_request
C10_Witness ==
    \E t \in CreateIds :
        /\ tasks[t].status = 400 /\ tasks[t].bodyType = "bad_request"
        /\ tasks[t].current # NoSchema
        /\ KeyIndexChange(tasks[t].current, ProposedInfo(t))
        /\ IndexTypeOf(ProposedInfo(t), "extra") = "range"
        /\ VersionValid(tasks[t].current, ProposedInfo(t))
        /\ SecondaryIndexesValid(tasks[t].current, ProposedInfo(t))

\* the proposed schema-info is the stored one plus one attribute that is in
\* no index; the version is left out of the comparison
AddsOneAttribute(current, proposed) ==
    /\ \E a \in DOMAIN proposed.attributes \ DOMAIN current.attributes :
            DOMAIN proposed.attributes = DOMAIN current.attributes \cup {a}
    /\ \A a \in DOMAIN current.attributes : proposed.attributes[a] = current.attributes[a]
    /\ proposed.table = current.table
    /\ proposed.index = current.index
    /\ proposed.secondaryIndexes = current.secondaryIndexes
    /\ proposed.revisionRetentionPolicy = current.revisionRetentionPolicy

Answered(t) == tasks[t].status # 0
NoEngineFault == faults = MaxFaults

RetypesAttribute(current, proposed) ==
    \E a \in DOMAIN current.attributes \cap DOMAIN proposed.attributes :
        current.attributes[a] # proposed.attributes[a]

\* C13: a migration that changes the declared type of an existing attribute
\* is rejected with 400, whatever the other axes of the diff are.
C13_TypeChangeRejected ==
    \A t \in CreateIds :
        IsMigration(t) /\ RetypesAttribute(tasks[t].current, ProposedInfo(t))
        => tasks[t].status = 400

\* the request found a stored schema with the hash of the proposed one
EqualHash(t) ==
    /\ tasks[t].current # NoSchema
    /\ SchemaHash(tasks[t].current) = SchemaHash(ProposedInfo(t))

\* a request with an equal hash is answered 201 and has started no
\* transaction: no DDL and no write of the meta row
C14_EqualHashAnswered ==
    \A t \in CreateIds : EqualHash(t) => tasks[t].status = 201 /\ OwnsNoRun(t)

\* the step that answers it changes nothing but the answer
C14_EqualHashStep ==
    \A t \in CreateIds :
        tasks[t].status = 0 /\ tasks'[t].status = 201 /\ tasks'[t].run = 0 =>
            UNCHANGED <<db, conn, pool, runs, reads, schemaCache, queryCache>>

StatementsOf(cache, tableName) == {key \in cache : KeyStartsWith(key, tableName)}

\* the call, up to the schema lookup, leaves the database, the schema cache
\* and the cached statements of the table alone
C14_CallStep ==
    Len(tasks') > Len(tasks) /\ tasks'[Len(tasks')].kind = "createTable" =>
        /\ UNCHANGED <<db, schemaCache>>
        /\ StatementsOf(queryCache', "T") = StatementsOf(queryCache, "T")

\* the call of a request whose hash equals the stored one leaves the whole
\* statement cache as it was
C14_CallStepWholeCache ==
    /\ Len(tasks') > Len(tasks) /\ tasks'[Len(tasks')].kind = "createTable"
    /\ db.meta # <<>>
    /\ SchemaHash(MakeSchemaInfo(db.meta[1].value))
            = SchemaHash(MakeSchemaInfo(tasks'[Len(tasks')].proposed))
    => queryCache' = queryCache

DropIds == {t \in TaskIds : tasks[t].kind = "dropTable"}

\* the same for the later revision alone (_dropTable), which returns when the
\* lookup finds no schema
DropAbsentSucceedsInLaterRevision ==
    \A t \in DropIds :
        Answered(t) /\ tasks[t].absent /\ NoEngineFault /\ tasks[t].rev = "_dropTable"
        => tasks[t].status = 204

\* C15: a dropTable called when the table does not exist (no meta row, no
\* physical table) completes successfully, unless the engine failed its
\* lookup.
C15_DropAbsentSucceeds ==
    \A t \in DropIds :
        Answered(t) /\ tasks[t].absent /\ NoEngineFault => tasks[t].status = 204

(***************************************************************************)
(* Claims about put as an upsert.                                          *)
(***************************************************************************)
\* no transaction has committed after the put's
JustCommitted(t) ==
    /\ PutCommitted(t)
    /\ \A r \in RunIds : runs[r].commitSeq <= runs[tasks[t].run].commitSeq

\* C17: after a put without `if` has committed, the row with the put's
\* primary key holds the put's value, whether there was no such row, a live
\* row or a row with _exist_until set before.
C17_PutIsUpsert ==
    \A t \in PutIds :
        JustCommitted(t) =>
            \E row \in db.rows : SamePk(row, tasks[t].attrs) /\ row.val = tasks[t].attrs.val

(***************************************************************************)
(* Claims about get, getTableSchema and request validation.                *)
(***************************************************************************)
GetIds == {t \in TaskIds : tasks[t].kind = "get"}
ItemsOf(t) == {tasks[t].items[i] : i \in 1..Len(tasks[t].items)}

C18_GetUnknownTable ==
    \A t \in GetIds :
        Answered(t) /\ tasks[t].absent /\ tasks[t].req.valid /\ NoEngineFault
        => tasks[t].status = 404 /\ tasks[t].items = <<>>

SchemaIds == {t \in TaskIds : tasks[t].kind = "getTableSchema"}

\* C19: getTableSchema for a table without a stored schema is answered 404
\* notfound.
C19_SchemaNotFound ==
    \A t \in SchemaIds :
        /\ Answered(t)
        /\ reads[tasks[t].read].result = NoErr
        /\ reads[tasks[t].read].rows = <<>>
        => tasks[t].status = 404 /\ tasks[t].bodyType = "notfound"

\* the request is one that the validator refuses
FailsValidation(t) ==
    \/ tasks[t].kind = "get" /\ ~tasks[t].req.valid
    \/ tasks[t].kind = "put" /\ ~tasks[t].valid

\* C20: a put or get that fails request validation is answered with a status
\* between 400 and 499, never with 500.
C20_ValidationIs400 ==
    \A t \in TaskIds :
        Answered(t) /\ FailsValidation(t) /\ NoEngineFault
        => tasks[t].status \in 400..499

(***************************************************************************)
(* Claims about the order of the steps of a migration and about the two    *)
(* caches.                                                                 *)
(***************************************************************************)
\* the transactions of the migrator: the ADD COLUMN or static table creation
\* of Attributes.migrate and the index drops of SecondaryIndexes.migrate
MigrationSteps(t) ==
    {r \in RunIds : /\ runs[r].owner = t
                    /\ runs[r].queries[1].op \in {"addColumn", "createTable", "dropIndex"}}

StepSucceeded(r) ==
    runs[r].settled /\ (runs[r].result = NoErr \/ IsDuplicateColumn(runs[r].result))

\* the migration has passed the invalidation of the statement cache
Invalidated(t) == tasks[t].pc = "metaPut" \/ runs[tasks[t].run].queries[1].op = "metaPut"

\* C21: in the migration path of createTable the invalidation of the
\* statement cache and the rewrite of the meta row happen only after every
\* migration step has completed successfully; while a step has failed or is
\* still running, the meta row has not been rewritten by the migration.
C21_MigrateThenInvalidate ==
    \A t \in CreateIds :
        IsMigration(t) /\ tasks[t].run # 0 /\ Invalidated(t)
        => \A r \in MigrationSteps(t) : StepSucceeded(r)

\* the same for the columns only: the steps that Attributes.migrate awaits
ColumnStepsThenInvalidate ==
    \A t \in CreateIds :
        IsMigration(t) /\ tasks[t].run # 0 /\ Invalidated(t)
        => \A r \in MigrationSteps(t) :
                runs[r].queries[1].op # "dropIndex" => StepSucceeded(r)

\* a secondary index drop of a migration failed and the meta row was
\* rewritten with the proposed schema all the same
MetaRewrittenAfterFailedDrop ==
    \E t \in CreateIds :
        /\ IsMigration(t) /\ tasks[t].status = 201
        /\ \E r \in MigrationSteps(t) : runs[r].settled /\ runs[r].result # NoErr
        /\ db.meta # <<>> /\ db.meta[1].value = tasks[t].proposed

\* a migration request that was answered 201
MigrationCompleted(t) == IsMigration(t) /\ tasks[t].status = 201

\* C22: once a migration of T has completed, the statement cache holds no
\* entry of T whose statement was built from the schema the migration
\* replaced, also when gets on T overlap the migration.
C22_NoStatementOfReplacedSchema ==
    \A t \in CreateIds :
        MigrationCompleted(t) =>
            \A key \in queryCache : key.table = "T" => compiled[key] # tasks[t].current

\* the schema of T in the committed meta table, NoSchema when it has no row
StoredSchema ==
    LET rows == SelectRows(MetaQ("T"), db)
    IN IF rows = <<>> THEN NoSchema ELSE MakeSchemaInfo(rows[1].value)

\* C23: createTable replaces the schema-cache entry of T only after the
\* transaction that records the new schema has committed: whenever
\* schemaCache[T] holds a schema-info, it is the one of the committed meta
\* row of T, also after a createTable that failed part-way.
C23_SchemaCacheIsCommittedSchema ==
    schemaCache["T"] # NoSchema => schemaCache["T"] = StoredSchema

\* a createTable was answered 500 and left in the schema cache a schema-info
\* that the meta table does not hold
SchemaCacheAheadAfterFailure ==
    /\ \E t \in CreateIds : tasks[t].status = 500
    /\ \A t \in CreateIds : tasks[t].status # 0
    /\ schemaCache["T"] # NoSchema /\ schemaCache["T"] # StoredSchema

(***************************************************************************)
(* Claims about the transaction and the progress of run().                 *)
(***************************************************************************)
\* run r gives the writer connection back in this step
Releases(r) == r <= Len(runs) /\ runs'[r].released > runs[r].released

\* C24: whenever run() releases the writer connection to the pool, no
\* transaction is open on it: every successful BEGIN IMMEDIATE was closed by
\* a successful COMMIT or ROLLBACK before the release.
C24_ReleasedWithoutTransaction ==
    [][\A r \in 1..Len(runs') : Releases(r) => ~conn'.txnOpen]_vars

\* the wrapper specification with an engine that answers every statement
\* and a caller whose handlers all run
SpecFair == Init /\ [][Next]_vars /\ WF_vars(Next)

EveryRunSettled == \A r \in RunIds : runs[r].acquired /\ runs[r].settled

EveryArrayRunSettles == []((\A r \in RunIds : runs[r].isArray)) => <>[]EveryRunSettled

(***************************************************************************)
(* Claims about the statement cache.                                       *)
(***************************************************************************)
\* all() calls all_p of its statement once more in this step, after the
\* delay that follows a BUSY answer
RetriesStatement(q) ==
    q <= Len(reads) /\ reads[q].attempts > 0 /\ reads'[q].attempts > reads[q].attempts

\* C26: all() executes no prepared statement, on its first attempt (made in
\* the step that takes the statement from the cache or prepares it) or on a
\* BUSY retry, after finalize was called on the statement by the disposal of
\* its cache entry.
C26_NoExecutionAfterFinalize ==
    [][/\ \A q \in 1..Len(reads') : q > Len(reads) => ~reads'[q].finalized
       /\ \A q \in 1..Len(reads') : RetriesStatement(q) => ~reads[q].finalized]_vars

\* get t takes its statement in this step (_createGetQuery), and the cache
\* holds one under its key
ServedFromCache(t) ==
    /\ tasks'[t].kind = "get" /\ tasks'[t].pc = "read"
    /\ t > Len(tasks) \/ tasks[t].pc # "read"
    /\ CacheKey("T", PublicGetShape(tasks'[t].req)) \in queryCache

\* C27: every prepared statement served from the statement cache for T was
\* built from the schema T has when it is served, which is the committed one
\* or, while a createTable is recording it, the one in the schema cache;
\* after dropTable(T) and a createTable(T) with another schema, no statement
\* of the dropped table is served.
C27_ServedStatementOfCurrentSchema ==
    [][\A t \in 1..Len(tasks') :
            ServedFromCache(t) =>
                compiled[CacheKey("T", PublicGetShape(tasks'[t].req))]
                    \in {StoredSchema, schemaCache'["T"]}]_vars

\* T was dropped and then created from a schema, and both requests were
\* answered before any other request was made
DroppedAndCreated ==
    /\ Len(tasks) >= 2
    /\ tasks[1].kind = "dropTable" /\ tasks[1].status = 204
    /\ tasks[2].kind = "createTable" /\ tasks[2].status = 201
    /\ tasks[2].current = NoSchema

\* the second half of C27 alone: no statement of the dropped table is served
\* to a get that follows the dropTable and the createTable
NoStatementOfDroppedTableServed ==
    [][\A t \in 1..Len(tasks') :
            DroppedAndCreated /\ t > Len(tasks) /\ ServedFromCache(t) =>
                compiled[CacheKey("T", PublicGetShape(tasks'[t].req))] = StoredSchema]_vars

\* C28: migrating T removes from the statement cache only entries of T:
\* every entry of another table, also of one whose name starts with the name
\* of T, stays cached and is not finalized.  (In this specification only a
\* migration of T removes entries.)
C28_OtherTablesKeepStatements ==
    [][\A key \in queryCache : key.table # "T" => key \in queryCache']_vars

\* the entries of the tables whose key does not start with the name of T stay
UnrelatedTablesKeepStatements ==
    [][\A key \in queryCache : key.table \in {"U", "global_schema"} => key \in queryCache']_vars

(***************************************************************************)
(* Claims about the static and the secondary-index table.                  *)
(***************************************************************************)
Ops(r) == {runs[r].queries[i].op : i \in 1..Len(runs[r].queries)}

\* every row of [T_secondaryIndex] and of [T_static] belongs to a row of
\* [T_data]: same key, and for the index the same indexed value; every key
\* of [T_data] has its index row
SidecarsAgree(d) ==
    /\ \A i \in d.index : \E row \in d.rows : row.key = i.key /\ row.val = i.val
    /\ \A s \in d.statics : \E row \in d.rows : row.key = s.key
    /\ \A row \in d.rows : \E i \in d.index : i.key = row.key

\* C29: every write to [T_data] that affects indexed attributes runs in the
\* same run() transaction as a replace into [T_secondaryIndex] and, if the
\* static attribute is supplied, a replace into [T_static], so after any
\* commit the static and the secondary-index table agree with the data table.
C29_SidecarsAgreeWithData ==
    /\ \A t \in PutIds :
            /\ "replaceIndex" \in Ops(tasks[t].run)
            /\ tasks[t].attrs.extra # Unset => "replaceStatic" \in Ops(tasks[t].run)
    /\ SidecarsAgree(db)

\* the first half of C29: the put's transaction carries the replaces
PutCarriesSidecarWrites ==
    \A t \in PutIds :
        /\ Ops(tasks[t].run) \cap {"update", "insert", "updateIf"} # {}
        /\ "replaceIndex" \in Ops(tasks[t].run)
        /\ tasks[t].attrs.extra # Unset <=> "replaceStatic" \in Ops(tasks[t].run)

\* the second half of C29 for puts without `if` under the policy 'all'
UnconditionalPutsAgree ==
    /\ PolicyOfT.type = "all"
    /\ \A t \in PutIds : tasks[t].attrs.cond = NoIf
    => SidecarsAgree(db)

\* a delete of _deleteOlderContent committed and left the index row behind
IndexRowOfDeletedRevision ==
    /\ \E r \in RunIds : "deleteOlder" \in Ops(r) /\ runs[r].commitSeq > 0
    /\ \A t \in PutIds : tasks[t].attrs.cond = NoIf
    /\ \E i \in db.index : \A row \in db.rows : row.key # i.key

\* the condition of the put does not hold in the database d
CondUnsatisfied(attrs, d) ==
    \/ /\ attrs.cond.kind = "not exists"
       /\ \E row \in d.rows : SamePk(row, attrs)
    \/ /\ attrs.cond.kind = "pred"
       /\ ~\E row \in d.rows : SamePk(row, attrs) /\ row.val = attrs.cond.val

CommitsNow(r) == runs[r].commitSeq = 0 /\ runs'[r].commitSeq > 0

\* C30: a conditional put whose condition is not satisfied ('not exists' on
\* an existing primary key, or a predicate that matches no row) leaves the
\* data table, the static table and the secondary-index table unchanged.
C30_UnsatisfiedConditionNoChange ==
    [][\A t \in PutIds :
            CommitsNow(tasks[t].run) /\ CondUnsatisfied(tasks[t].attrs, db)
            => /\ db'.rows = db.rows
               /\ db'.statics = db.statics
               /\ db'.index = db.index]_vars

\* C30 for the data table alone
UnsatisfiedConditionKeepsData ==
    [][\A t \in PutIds :
            CommitsNow(tasks[t].run) /\ CondUnsatisfied(tasks[t].attrs, db)
            => db'.rows = db.rows]_vars

(***************************************************************************)
(* Claims about the physical tables and the meta table.                    *)
(***************************************************************************)
\* [T_static] and [T_secondaryIndex] are there exactly when the schema-info
\* asks for them; without a schema neither is there
SidecarTablesMatch(info, tbl) ==
    IF info = NoSchema THEN tbl.static = {} /\ tbl.secondaryIndex = {}
    ELSE /\ tbl.static # {} <=> StaticTableExist(info)
         /\ tbl.secondaryIndex # {} <=> DOMAIN info.secondaryIndexes # {}

\* every request was answered 201 and nothing is in flight
QuiescentAfterSuccess ==
    /\ Quiescent
    /\ tasks # <<>>
    /\ \A t \in TaskIds : tasks[t].status = 201
    /\ \A r \in RunIds : runs[r].result = NoErr

\* C31: at every quiescent point of the table's lifecycle (after createTable,
\* after each successful migration, after dropTable) [T_static] exists
\* exactly when the current schema has a static index element and
\* [T_secondaryIndex] exists exactly when its secondaryIndexes is non-empty.
C31_SidecarTablesFollowSchema ==
    QuiescentAfterSuccess => SidecarTablesMatch(StoredSchema, db.tables)

\* C31 for one createTable of an absent table
FreshTablesFollowSchema ==
    QuiescentAfterSuccess /\ Len(tasks) = 1 /\ tasks[1].current = NoSchema
    => SidecarTablesMatch(StoredSchema, db.tables)

\* a migration removed the last secondary index and the table stayed
SecondaryTableOutlivesIndexes ==
    /\ QuiescentAfterSuccess
    /\ \E t \in CreateIds : MigrationCompleted(t)
    /\ StoredSchema # NoSchema /\ DOMAIN StoredSchema.secondaryIndexes = {}
    /\ db.tables.secondaryIndex # {} /\ db.tables.indexes = {}

\* the rows of [global_schema_data] whose "table" is T
MetaRowsOfT(d) == SelectSeq(d.meta, LAMBDA row : row.table = "T")

\* C32: the meta table holds exactly one row per existing logical table:
\* after createTable, after each successful migration and after concurrent
\* createTable calls there is one row for T, and after dropTable none.
C32_OneMetaRowPerTable ==
    QuiescentAfterSuccess =>
        Len(MetaRowsOfT(db)) = IF db.tables.data # {} THEN 1 ELSE 0

\* C32 for one createTable of an absent table
FreshTableHasOneMetaRow ==
    QuiescentAfterSuccess /\ Len(tasks) = 1 /\ tasks[1].current = NoSchema
    => Len(MetaRowsOfT(db)) = 1

\* a migration has added a second row and left the old one
MetaRowAddedByMigration ==
    /\ QuiescentAfterSuccess
    /\ Len(tasks) = 1 /\ MigrationCompleted(1)
    /\ Len(MetaRowsOfT(db)) = 2
    /\ MakeSchemaInfo(MetaRowsOfT(db)[2].value) = tasks[1].current

\* C33: createTable of an absent table creates the physical tables first and
\* writes the meta row afterwards, and only if the transaction of the DDL
\* committed: a meta row for T never exists while [T_data] does not.
C33_MetaRowImpliesDataTable ==
    MetaRowsOfT(db) # <<>> => db.tables.data # {}


\* C33 while every createTable so far found the table absent
FreshMetaRowImpliesDataTable ==
    (\A t \in CreateIds : tasks[t].current = NoSchema)
    => C33_MetaRowImpliesDataTable


\* the first half of C33: a createTable that found the table absent starts
\* the put of the meta row only when its DDL transaction has committed
MetaPutAfterDdlCommitted ==
    \A t \in CreateIds :
        tasks[t].current = NoSchema /\ tasks[t].pc \in {"metaPut", "finished"}
            /\ (\E r \in RunIds : runs[r].owner = t /\ "metaPut" \in Ops(r))
        => \E r \in RunIds : /\ runs[r].owner = t
                             /\ "createTable" \in Ops(r)
                             /\ runs[r].commitSeq > 0
                             /\ r < tasks[t].run

\* a dropTable committed between the DDL and the meta put of a createTable
MetaRowAfterDrop ==
    /\ \A t \in CreateIds : tasks[t].current = NoSchema
    /\ MetaRowsOfT(db) # <<>> /\ db.tables.data = {}
    /\ \E t \in DropIds : runs[tasks[t].run].commitSeq > 0

(***************************************************************************)
(* Claims about the settling of dropTable and of the retention pass.       *)
(***************************************************************************)
\* the answer of a dropTable that started its transaction follows it
SettledWithTransaction(t) ==
    /\ runs[tasks[t].run].settled
    /\ tasks[t].status = IF runs[tasks[t].run].result = NoErr THEN 204 ELSE 500

\* C34: dropTable settles towards its caller only after the transaction that
\* drops the physical tables and deletes the meta row has committed or
\* failed: it never reports success while the drop is pending, and a failure
\* of that transaction reaches the caller.
C34_DropSettlesWithTransaction ==
    \A t \in DropIds :
        Answered(t) /\ tasks[t].run # 0 => SettledWithTransaction(t)

\* C34 when the schema of the table is in the schema cache, and in the
\* revision of dropTable that returns deleteRequest(schema) from its .then
DropAwaitedWhenReturned ==
    \A t \in DropIds :
        Answered(t) /\ tasks[t].run # 0 /\ (tasks[t].read = 0 \/ tasks[t].rev = "dropTable")
        => SettledWithTransaction(t)

\* 204 was answered and the transaction failed afterwards
DropFailedAfterSuccessReported ==
    \E t \in DropIds :
        /\ tasks[t].status = 204 /\ tasks[t].run # 0
        /\ runs[tasks[t].run].settled /\ runs[tasks[t].run].result # NoErr

\* a read or a transaction of the retention processing of the put exists
RetentionStarted(t) ==
    \/ \E q \in ReadIds : reads[q].owner = t
    \/ \E r \in RunIds : runs[r].owner = t /\ r # tasks[t].run

\* C35: the retention processing of a put starts only after the data
\* transaction of that put has committed; a put whose transaction is rolled
\* back or never begins triggers no retention read and no retention write.
C35_RetentionAfterCommit ==
    \A t \in PutIds : RetentionStarted(t) => PutCommitted(t)

\* one put went on to its retention write, another was rolled back and
\* answered 500 without any retention processing
C35_Witness ==
    \E t, u \in PutIds :
        /\ tasks[t].retRun # 0 /\ PutCommitted(t)
        /\ runs[tasks[u].run].rollbackIssued /\ tasks[u].status = 500
        /\ ~RetentionStarted(u)

(***************************************************************************)
(* Claims about the retention pass under the policy latest.                *)
(***************************************************************************)
\* the write of the retention pass of the put commits in this step
PassCommits(t) ==
    /\ tasks[t].retRun # 0
    /\ runs[tasks[t].retRun].commitSeq = 0
    /\ runs'[tasks[t].retRun].commitSeq > 0

\* the rows the pass read, newest first, and the _exist_until it writes
PassItems(t) == reads[tasks[t].retRead].rows
PassExpire(t) == runs[tasks[t].retRun].queries[1].a.eu

LiveRowsIn(d, key) == {row \in d.rows : row.key = key /\ row.eu = Null}

\* the k rows with the greatest tid
NewestK(rows, k) == {row \in rows : Cardinality({o \in rows : o.tid > row.tid}) < k}

\* C36 as stated: under policy latest with count k, a retention pass keeps
\* live exactly the k rows with the greatest tid among the live rows of the
\* key group of the put and sets _exist_until to the time of the pass plus
\* grace_ttl * 1000 on every other live row of that group.
C36_PassKeepsNewestK ==
    [][\A t \in PutIds :
          PolicyOfT.type = "latest" /\ PassCommits(t) =>
            LET live == LiveRowsIn(db, tasks[t].attrs.key)
                kept == NewestK(live, PolicyOfT.count)
            IN /\ LiveRowsIn(db', tasks[t].attrs.key) = kept
               /\ \A row \in live \ kept :
                    \E o \in db'.rows : SamePk(o, row) /\ o.eu = PassExpire(t)]_vars

\* what the pass does establish: it leaves no row live that its read
\* returned after the first k, sets _exist_until to the time of the pass plus
\* grace_ttl * 1000 on each of them that was still live, and leaves every
\* other live row as it is
PassTombstonesReadRows ==
    [][\A t \in PutIds :
          PolicyOfT.type = "latest" /\ PassCommits(t) =>
            LET items == PassItems(t)
                extra == {items[i] : i \in (PolicyOfT.count + 1)..Len(items)}
            IN /\ \A item \in extra : \A o \in db'.rows :
                    SamePk(o, item) =>
                        /\ o.eu # Null
                        /\ (\E row \in db.rows : SamePk(row, item) /\ row.eu = Null)
                            => o.eu = PassExpire(t)
               /\ \A row \in db.rows :
                    row.eu = Null /\ ~(\E item \in extra : SamePk(row, item))
                    => row \in db'.rows]_vars

\* a put committed between the read and the write of a pass: after the pass
\* more than k rows of the group are live
MoreThanKLiveAfterPass ==
    /\ PolicyOfT.type = "latest"
    /\ \E t \in PutIds :
        /\ tasks[t].retRun # 0 /\ runs[tasks[t].retRun].commitSeq > 0
        /\ \A r \in RunIds : runs[r].commitSeq <= runs[tasks[t].retRun].commitSeq
        /\ Cardinality(LiveRowsIn(db, tasks[t].attrs.key)) > PolicyOfT.count

\* a put with _ttl replaced the newest row between the read and the write of
\* a pass: the pass has tombstoned the last live row of the group
NoLiveRowAfterPass ==
    /\ PolicyOfT.type = "latest"
    /\ \E t \in PutIds :
        /\ tasks[t].retRun # 0 /\ runs[tasks[t].retRun].commitSeq > 0
        /\ \A r \in RunIds : runs[r].commitSeq <= runs[tasks[t].retRun].commitSeq
        /\ LiveRowsIn(db, tasks[t].attrs.key) = {}

(***************************************************************************)
(* Claims about what is retried and what a migration swallows.             *)
(***************************************************************************)
\* 'begin immediate' of the run, or all_p of the read, was attempted in this
\* step and answered with an error other than SQLITE_BUSY
BeginRefused(r) ==
    /\ runs'[r].attempts = runs[r].attempts + 1
    /\ runs'[r].lastErr.code \notin {"none", "SQLITE_BUSY"}

AllRefused(q) ==
    /\ reads'[q].attempts = reads[q].attempts + 1
    /\ reads'[q].lastErr.code \notin {"none", "SQLITE_BUSY"}

\* C37: only SQLITE_BUSY is retried: any other error of 'begin immediate' in
\* run() or of the statement in all() is raised to the caller at once, and
\* no further attempt is made.
C37_OnlyBusyRetried ==
    [][/\ \A r \in RunIds :
            /\ BeginRefused(r) => /\ runs'[r].settled
                                  /\ runs'[r].result = runs'[r].lastErr
                                  /\ runs'[r].retryCount = runs[r].retryCount
            /\ runs[r].settled => runs'[r].attempts = runs[r].attempts
       /\ \A q \in ReadIds :
            /\ AllRefused(q) => /\ reads'[q].pc = "done"
                                /\ reads'[q].result = reads'[q].lastErr
                                /\ reads'[q].retryCount = reads[q].retryCount
            /\ reads[q].pc = "done" => reads'[q].attempts = reads[q].attempts]_vars

\* a run was refused by SQLITE_IOERR after one SQLITE_BUSY and a read at its
\* first attempt: one retry and two attempts, no retry and one attempt
C37_Witness ==
    /\ \E r \in RunIds : /\ runs[r].settled /\ runs[r].result = Err("SQLITE_IOERR", "begin")
                         /\ runs[r].retryCount = 1 /\ runs[r].attempts = 2
    /\ \E q \in ReadIds : /\ reads[q].pc = "done" /\ reads[q].result = Err("SQLITE_IOERR", "all")
                          /\ reads[q].retryCount = 0 /\ reads[q].attempts = 1


\* the handler of P.each in Attributes.migrate runs for request t in this step
ColumnSettles(t) ==
    /\ tasks[t].pc = "addColumns" /\ tasks'[t] # tasks[t]

ColumnError(t) == runs[tasks[t].run].result

\* the migration goes on: with the next column when there is one, with the
\* rest of the migration when there is none
MigrationGoesOn(t) ==
    /\ ~Answered(t)'
    /\ Len(runs') > Len(runs)
    /\ runs'[Len(runs')].owner = t
    /\ IF Tail(tasks[t].cols) # <<>>
       THEN /\ tasks'[t].pc = "addColumns"
            /\ tasks'[t].cols = Tail(tasks[t].cols)
            /\ runs'[Len(runs')].queries =
                  <<AlterTableAdd(tasks[t].current, ProposedInfo(t), tasks[t].cols[2])>>
       ELSE tasks'[t].pc = "metaPut"

\* C38: during a migration the error that the column being added exists
\* already is swallowed and the migration goes on with the next column; any
\* other error stops the migration and reaches the caller of createTable.
C38_DuplicateColumnSwallowed ==
    [][\A t \in CreateIds : ColumnSettles(t) =>
          IF ColumnError(t).code \in {"none", "SQLITE_ERROR: duplicate column name"}
          THEN MigrationGoesOn(t)
          ELSE /\ tasks'[t].pc = "finished"
               /\ tasks'[t].status = 500 /\ tasks'[t].bodyType = "table_creation_error"
               /\ runs' = runs]_vars

\* a request whose ADD COLUMN was refused as a duplicate has gone on and has
\* been answered 201
C38_Witness ==
    \E t \in CreateIds, r \in RunIds :
       /\ runs[r].owner = t /\ runs[r].queries[1].op = "addColumn"
       /\ runs[r].result.code = "SQLITE_ERROR: duplicate column name"
       /\ tasks[t].status = 201

\* a request whose ADD COLUMN failed with another error has been answered 500
ColumnFailureReachesCaller ==
    \E t \in CreateIds :
       /\ tasks[t].status = 500 /\ tasks[t].cols # <<>>
       /\ runs[tasks[t].run].queries[1].op = "addColumn"
       /\ runs[tasks[t].run].result.code \notin {"none", "SQLITE_ERROR: duplicate column name"}


(***************************************************************************)
(* Claims about get on a cache miss and on a cache hit.                    *)
(***************************************************************************)
\* client.all of the get t resolves in this step and the request is answered
GetAnswersNow(t) ==
    /\ tasks[t].pc = "read" /\ tasks'[t].pc = "finished"
    /\ reads[tasks[t].read].result = NoErr

\* what a get on a cache hit returns for the request, the rows and the time
HitBody(t) ==
    ConvertRows(reads[tasks[t].read].rows,
                [includePreparedForDelete |-> TRUE, withTTL |-> tasks[t].req.withTTL],
                now)

\* C39: the result of get does not depend on whether the schema was cached:
\* a get on a cache miss returns the items a get on a cache hit returns for
\* the same request, rows and time, _ttl included when withTTL is requested.
C39_GetSameOnMissAndHit ==
    [][\A t \in {u \in TaskIds : tasks[u].kind = "get"} :
          GetAnswersNow(t) => tasks'[t].body = HitBody(t)]_vars

\* on a cache hit the items are those of convertRow with the request's withTTL
HitGetCarriesTtl ==
    [][\A t \in {u \in TaskIds : tasks[u].kind = "get"} :
          GetAnswersNow(t) /\ ~tasks[t].miss => tasks'[t].body = HitBody(t)]_vars

\* on a cache miss the items differ from those of a hit in _ttl alone
MissGetDiffersInTtlOnly ==
    [][\A t \in {u \in TaskIds : tasks[u].kind = "get"} :
          GetAnswersNow(t) =>
             /\ Len(tasks'[t].body) = Len(HitBody(t))
             /\ \A i \in 1..Len(HitBody(t)) :
                   [tasks'[t].body[i] EXCEPT !.ttl = <<>>] = [HitBody(t)[i] EXCEPT !.ttl = <<>>]
             /\ ~tasks[t].req.withTTL => tasks'[t].body = HitBody(t)]_vars

\* a get with withTTL on a cache miss was answered 200 with items without _ttl
MissGetWithoutTtl ==
    \E t \in TaskIds :
       /\ tasks[t].kind = "get" /\ tasks[t].miss /\ tasks[t].req.withTTL
       /\ tasks[t].status = 200
       /\ \A i \in 1..Len(tasks[t].body) : tasks[t].body[i].ttl = <<>>

\* a get with withTTL on a cache hit was answered 200 with items with _ttl
HitGetWithTtl ==
    \E t \in TaskIds :
       /\ tasks[t].kind = "get" /\ ~tasks[t].miss /\ tasks[t].req.withTTL
       /\ tasks[t].status = 200
       /\ \A i \in 1..Len(tasks[t].body) : tasks[t].body[i].ttl # <<>>

====
